---------------------------- MODULE Spec2Model ----------------------------
(***************************************************************************)
(* PathWise: a model of the client's AI request layer (src/lib/gemini.ts), *)
(* its toast hook, AuthProvider with AuthForm and the router, the         *)
(* Dashboard / LessonsList / LessonView / RoadmapView / Onboarding         *)
(* handlers and the rows they write to the hosted store.                   *)
(*                                                                         *)
(* Text is modelled as a sequence of one-character strings, so that the    *)
(* string functions of the source (trim, startsWith, substring, indexOf,   *)
(* the two regular expressions, JSON.parse, JSON.stringify) are computed   *)
(* and not assumed.  Positions are 0-based as in JavaScript.               *)
(***************************************************************************)
EXTENDS Integers, Sequences, FiniteSets, TLC

\* ------------------------------------------------------------------ text

Whitespace == {" ", "\n"}

\* String.prototype.substring(a, b): characters a .. b-1 (0-based).
substring(s, a, b) == SubSeq(s, a + 1, b)

\* String.prototype.substring(a): from a to the end.
substringFrom(s, a) == SubSeq(s, a + 1, Len(s))

startsWith(s, p) == Len(s) >= Len(p) /\ SubSeq(s, 1, Len(p)) = p

endsWith(s, p) == Len(s) >= Len(p) /\ SubSeq(s, Len(s) - Len(p) + 1, Len(s)) = p

\* String.prototype.includes(p)
includes(s, p) ==
    \E i \in 1..(Len(s) - Len(p) + 1) : SubSeq(s, i, i + Len(p) - 1) = p

\* String.prototype.indexOf(c) for a single character: -1 when absent.
indexOf(s, c) ==
    IF \E i \in 1..Len(s) : s[i] = c
    THEN (CHOOSE i \in 1..Len(s) : s[i] = c /\ \A j \in 1..(i - 1) : s[j] # c) - 1
    ELSE -1

\* String.prototype.lastIndexOf(c) for a single character: -1 when absent.
lastIndexOf(s, c) ==
    IF \E i \in 1..Len(s) : s[i] = c
    THEN (CHOOSE i \in 1..Len(s) : s[i] = c /\ \A j \in (i + 1)..Len(s) : s[j] # c) - 1
    ELSE -1

\* String.prototype.trim(): whitespace removed at both ends.
trim(s) ==
    IF \A i \in 1..Len(s) : s[i] \in Whitespace
    THEN << >>
    ELSE LET a == CHOOSE i \in 1..Len(s) :
                      s[i] \notin Whitespace /\ \A j \in 1..(i - 1) : s[j] \in Whitespace
             b == CHOOSE i \in 1..Len(s) :
                      s[i] \notin Whitespace /\ \A j \in (i + 1)..Len(s) : s[j] \in Whitespace
         IN  SubSeq(s, a, b)

\* The result of s.match(re) for the two patterns of the source, an opening
\* character, anything, a closing character: the leftmost, greedy match.
\* It starts at the first <open> and runs to the last <close> after it; there
\* is no match when no <close> follows the first <open>.
regexMatch(s, open, close) ==
    LET first == indexOf(s, open)
        last  == lastIndexOf(s, close)
    IN  IF first # -1 /\ last > first
        THEN [found |-> TRUE, index |-> first, text |-> substring(s, first, last + 1)]
        ELSE [found |-> FALSE, index |-> -1, text |-> << >>]

\* The backtick character (a TLA+ string cannot hold one).
Backtick == "BT"

\* The double quote character.
Quote == "\""

FenceJson == <<Backtick, Backtick, Backtick, "j", "s", "o", "n">>
Fence     == <<Backtick, Backtick, Backtick>>

\* cleanJsonResponse with only the older logic of its last branch: the
\* outermost braces are looked for first, the brackets only without them.
cleanJsonResponseBracesFirst(content) ==
    LET c0 == trim(content)
        c1 == IF startsWith(c0, FenceJson) THEN substringFrom(c0, 7)
              ELSE IF startsWith(c0, Fence) THEN substringFrom(c0, 3)
              ELSE c0
        c2 == IF endsWith(c1, Fence) THEN substring(c1, 0, Len(c1) - 3) ELSE c1
        cleaned == trim(c2)
        firstBrace   == indexOf(cleaned, "{")
        lastBrace    == lastIndexOf(cleaned, "}")
        firstBracket == indexOf(cleaned, "[")
        lastBracket  == lastIndexOf(cleaned, "]")
    IN  IF firstBrace # -1 /\ lastBrace # -1 /\ lastBrace > firstBrace
        THEN substring(cleaned, firstBrace, lastBrace + 1)
        ELSE IF firstBracket # -1 /\ lastBracket # -1 /\ lastBracket > firstBracket
        THEN substring(cleaned, firstBracket, lastBracket + 1)
        ELSE cleaned

cleanJsonResponse(content) ==
    LET c0 == trim(content)
        c1 == IF startsWith(c0, FenceJson) THEN substringFrom(c0, 7)
              ELSE IF startsWith(c0, Fence) THEN substringFrom(c0, 3)
              ELSE c0
        c2 == IF endsWith(c1, Fence) THEN substring(c1, 0, Len(c1) - 3) ELSE c1
        cleaned == trim(c2)
        jsonObjectMatch == regexMatch(cleaned, "{", "}")
        jsonArrayMatch  == regexMatch(cleaned, "[", "]")
        firstBrace   == indexOf(cleaned, "{")
        lastBrace    == lastIndexOf(cleaned, "}")
        firstBracket == indexOf(cleaned, "[")
        lastBracket  == lastIndexOf(cleaned, "]")
    IN  IF jsonArrayMatch.found
           /\ (~jsonObjectMatch.found \/ jsonArrayMatch.index < jsonObjectMatch.index)
        THEN jsonArrayMatch.text
        ELSE IF jsonObjectMatch.found
        THEN jsonObjectMatch.text
        ELSE IF firstBrace # -1 /\ lastBrace # -1 /\ lastBrace > firstBrace
        THEN substring(cleaned, firstBrace, lastBrace + 1)
        ELSE IF firstBracket # -1 /\ lastBracket # -1 /\ lastBracket > firstBracket
        THEN substring(cleaned, firstBracket, lastBracket + 1)
        ELSE cleaned

\* ------------------------------------------------------------------ JSON

\* A JSON value.  Every node has the same three fields: t is its type, s its
\* characters (a number's digits, a string's text, a member's key) and items
\* its children (an array's elements, an object's members, a member's value).
J(t, s, items) == [t |-> t, s |-> s, items |-> items]
JNone == J("none", << >>, << >>)

Digits == {"1", "2", "3", "4", "5", "6", "7", "8", "9"}

RECURSIVE JoinWith(_, _)
\* The texts of parts, separated by sep.
JoinWith(parts, sep) ==
    IF parts = << >> THEN << >>
    ELSE IF Len(parts) = 1 THEN parts[1]
    ELSE parts[1] \o sep \o JoinWith(Tail(parts), sep)

RECURSIVE stringify(_, _)
\* JSON.stringify(v), with sep written after each comma and colon: sep is
\* empty for JSON.stringify itself and a space in a reply that is spaced out.
stringify(v, sep) ==
    CASE v.t = "num" -> v.s
      [] v.t = "str" -> <<Quote>> \o v.s \o <<Quote>>
      [] v.t = "mem" -> <<Quote>> \o v.s \o <<Quote, ":">> \o sep \o stringify(v.items[1], sep)
      [] v.t = "arr" ->
            <<"[">> \o JoinWith([i \in 1..Len(v.items) |-> stringify(v.items[i], sep)],
                                <<",">> \o sep) \o <<"]">>
      [] v.t = "obj" ->
            <<"{">> \o JoinWith([i \in 1..Len(v.items) |-> stringify(v.items[i], sep)],
                                <<",">> \o sep) \o <<"}">>
      [] OTHER -> << >>

\* The first position at or after i (1-based) that holds no whitespace;
\* Len(s) + 1 when there is none.
skipWs(s, i) ==
    IF \E j \in i..Len(s) : s[j] \notin Whitespace
    THEN CHOOSE j \in i..Len(s) :
            s[j] \notin Whitespace /\ \A k \in i..(j - 1) : s[k] \in Whitespace
    ELSE Len(s) + 1

ParseFail == [ok |-> FALSE, v |-> JNone, next |-> 0]

RECURSIVE parseValue(_, _), parseItems(_, _, _, _)
\* One JSON value read from position i0 (1-based) of s, as JSON.parse reads
\* it: [ok, v, next], next being the position after the value.
parseValue(s, i0) ==
    LET i == skipWs(s, i0) IN
    IF i > Len(s) THEN ParseFail
    ELSE IF s[i] \in Digits THEN
        LET e == IF \E j \in i..Len(s) : s[j] \notin Digits
                 THEN (CHOOSE j \in i..Len(s) :
                          s[j] \notin Digits /\ \A k \in i..(j - 1) : s[k] \in Digits) - 1
                 ELSE Len(s)
        IN  [ok |-> TRUE, v |-> J("num", SubSeq(s, i, e), << >>), next |-> e + 1]
    ELSE IF s[i] = Quote THEN
        IF \E j \in (i + 1)..Len(s) : s[j] = Quote
        THEN LET e == CHOOSE j \in (i + 1)..Len(s) :
                         s[j] = Quote /\ \A k \in (i + 1)..(j - 1) : s[k] # Quote
             IN  IF \E k \in (i + 1)..(e - 1) : s[k] = "\n"
                 THEN ParseFail
                 ELSE [ok |-> TRUE, v |-> J("str", SubSeq(s, i + 1, e - 1), << >>), next |-> e + 1]
        ELSE ParseFail
    ELSE IF s[i] = "[" THEN parseItems(s, i + 1, << >>, "]")
    ELSE IF s[i] = "{" THEN parseItems(s, i + 1, << >>, "}")
    ELSE ParseFail

\* The elements of an array (close = "]") or the members of an object
\* (close = "}") from position i0, acc being those read so far.
parseItems(s, i0, acc, close) ==
    LET i == skipWs(s, i0)
        done(n) == [ok |-> TRUE,
                    v |-> J(IF close = "]" THEN "arr" ELSE "obj", << >>, acc),
                    next |-> n]
    IN
    IF i > Len(s) THEN ParseFail
    ELSE IF s[i] = close /\ acc = << >> THEN done(i + 1)
    ELSE
        LET key   == IF close = "}" THEN parseValue(s, i) ELSE ParseFail
            colon == IF key.ok THEN skipWs(s, key.next) ELSE 0
            keyOk == close = "]"
                     \/ (key.ok /\ key.v.t = "str" /\ colon <= Len(s) /\ s[colon] = ":")
            val   == IF ~keyOk THEN ParseFail
                     ELSE IF close = "]" THEN parseValue(s, i)
                     ELSE parseValue(s, colon + 1)
            item  == IF close = "]" THEN val.v ELSE J("mem", key.v.s, <<val.v>>)
            j     == IF val.ok THEN skipWs(s, val.next) ELSE 0
        IN  IF ~val.ok \/ j > Len(s) THEN ParseFail
            ELSE IF s[j] = "," THEN
                LET k == skipWs(s, j + 1) IN
                IF k <= Len(s) /\ s[k] = close THEN ParseFail
                ELSE parseItems(s, j + 1, Append(acc, item), close)
            ELSE IF s[j] = close THEN
                [ok |-> TRUE,
                 v |-> J(IF close = "]" THEN "arr" ELSE "obj", << >>, Append(acc, item)),
                 next |-> j + 1]
            ELSE ParseFail

\* JSON.parse(text): ok is FALSE where JSON.parse throws a SyntaxError.
JSONparse(text) ==
    LET r == parseValue(text, 1) IN
    IF r.ok /\ skipWs(text, r.next) > Len(text)
    THEN [ok |-> TRUE, value |-> r.v]
    ELSE [ok |-> FALSE, value |-> JNone]


\* ------------------------------------------------------- lib/gemini.ts

VARIABLES
    t_toasts,    \* the toasts state of each component that calls useToast()
    t_created,   \* every toast created so far: its id and the component
    t_removed,   \* the ids removeToast was called with
    t_nextId     \* the next toast id

toastVars == <<t_toasts, t_created, t_removed, t_nextId>>

VARIABLES
    d_profiles,     \* table profiles
    d_roadmaps,     \* table roadmaps
    d_lessons,      \* table lessons
    d_progress,     \* table user_progress
    d_completions,  \* table lesson_completions
    d_nextId        \* the rows inserted so far, plus one: ids stand for
                    \* gen_random_uuid() and, by their order, for created_at

dbVars == <<d_profiles, d_roadmaps, d_lessons, d_progress, d_completions, d_nextId>>

VARIABLES
    a_user,         \* AuthProvider: user
    a_profile       \* AuthProvider: profile

authVars == <<a_user, a_profile>>

VARIABLES
    page,           \* the page the router shows
    shown,          \* the toast the last handler of the page asked for
    rv_roadmap,     \* RoadmapView: roadmap
    rv_loading,     \* RoadmapView: loading
    rv_showDeleteModal,  \* RoadmapView: showDeleteModal
    rv_processing   \* RoadmapView: processing

pageVars == <<page, shown, rv_roadmap, rv_loading, rv_showDeleteModal, rv_processing>>

VARIABLES
    lv_lessonId,        \* LessonView: the route's lesson id, 0 when unmounted
    lv_lesson,          \* LessonView: lesson
    lv_lessonContent,   \* LessonView: lessonContent
    lv_loading,         \* LessonView: loading
    lv_runs,            \* the runs of fetchLesson awaiting generateLessonContent
    lv_isCompleted,     \* LessonView: isCompleted
    lv_showTest,        \* LessonView: showTest
    lv_currentQuestion, \* LessonView: currentQuestion
    lv_userAnswers,     \* LessonView: userAnswers
    lv_testCompleted,   \* LessonView: testCompleted
    lv_score,           \* LessonView: score
    ls_items            \* localStorage: the entries lesson_<id>

lessonVars ==
    <<lv_lessonId, lv_lesson, lv_lessonContent, lv_loading, lv_runs, lv_isCompleted,
      lv_showTest, lv_currentQuestion, lv_userAnswers, lv_testCompleted, lv_score, ls_items>>

VARIABLES
    g_fn,        \* the exported function that made the call
    g_env,       \* what the endpoint will do: the reply, or a network failure
    g_pc,        \* where makeGeminiRequest stands
    g_timer,     \* the abort timer: "unset", "armed", "cleared" or "fired"
    g_elapsed,   \* ticks since the call started
    g_cleaned,   \* what cleanJsonResponse returned, once it has run
    g_result,    \* how makeGeminiRequest settled
    g_caller,    \* how the exported function settled
    g_last       \* the step that settled the call

geminiVars ==
    <<g_fn, g_env, g_pc, g_timer, g_elapsed, g_cleaned, g_result, g_caller, g_last>>

VARIABLES
    r_inflight,          \* the calls in flight: how many of each request
    r_failed,            \* how often each request has failed since the page was loaded
    r_issued,            \* how many requests have been issued
    r_last,              \* the request issued last, what issued it, and whether
                         \* that request had failed before
    dash_effectPending,  \* Dashboard: user or profile has changed since its effect ran
    dash_timer,          \* Dashboard: the 2000 ms timer of the effect is pending
    dash_error           \* Dashboard: error is set

requestVars ==
    <<r_inflight, r_failed, r_issued, r_last, dash_effectPending, dash_timer, dash_error>>

VARIABLES
    ll_lessons,      \* LessonsList: lessons
    ll_completions,  \* LessonsList: completions
    ll_loading,      \* LessonsList: loading
    ll_error         \* LessonsList: error is set

listVars == <<ll_lessons, ll_completions, ll_loading, ll_error>>

VARIABLES
    of_loading,      \* OnboardingFlow: loading
    of_toast         \* OnboardingFlow: the toast its last showError built

onboardingVars == <<of_loading, of_toast>>

VARIABLES
    a_loading,    \* AuthProvider: loading
    a_isNewUser,  \* AuthProvider: isNewUser
    a_attempts,   \* AuthProvider: profileFetchAttempts
    au_session,   \* initializeAuth: "pending" at its await of getSession, then "settled"
    au_pending,   \* the auth event the client has still to report, or "none"
    au_fetches,   \* the fetchProfile calls at their await
    au_nextCall,  \* the number of the next fetchProfile call
    au_op,        \* the signIn or signUp of the last submit of AuthForm
    au_target,    \* where /auth first redirected to since that submit, or "none"
    au_warnings,  \* 'Loading Issue' warnings since the last profile fetched or sign-out
    au_last       \* the fetchProfile call that returned last

authFlowVars ==
    <<a_loading, a_isNewUser, a_attempts, au_session, au_pending, au_fetches, au_nextCall,
      au_op, au_target, au_warnings, au_last>>

VARIABLES
    fa_error,    \* the error formatAuthError is called with
    fa_result    \* what it returned, the empty text before the call

vars ==
    <<geminiVars, toastVars, dbVars, authVars, pageVars, lessonVars, requestVars,
      listVars, onboardingVars, authFlowVars, fa_error, fa_result>>

\* What the steps of one part leave alone.
outsideGemini ==
    <<toastVars, dbVars, authVars, pageVars, lessonVars, requestVars, listVars,
      onboardingVars, authFlowVars, fa_error, fa_result>>
outsideToast ==
    <<geminiVars, dbVars, authVars, pageVars, lessonVars, requestVars, listVars,
      onboardingVars, authFlowVars, fa_error, fa_result>>
outsidePages == <<geminiVars, toastVars, requestVars, authFlowVars, fa_error, fa_result>>
outsideRequests ==
    <<geminiVars, toastVars, dbVars, lessonVars, rv_roadmap, rv_loading, rv_showDeleteModal,
      rv_processing, listVars, onboardingVars, authFlowVars, fa_error, fa_result>>
outsideAuth ==
    <<geminiVars, toastVars, dbVars, lessonVars, requestVars, listVars, onboardingVars,
      shown, rv_roadmap, rv_loading, rv_showDeleteModal, rv_processing, fa_error, fa_result>>

\* One tick of the model's clock, in milliseconds.
TickMs == 10000

GeminiFunctions == {"generateQuestions", "generateRoadmap", "generateLessonContent"}

\* The timeout each exported function passes to makeGeminiRequest, in ticks.
timeoutOf(fn) ==
    CASE fn = "generateQuestions" -> 20000 \div TickMs
      [] fn = "generateRoadmap" -> 30000 \div TickMs
      [] OTHER -> 25000 \div TickMs

\* How far past the longest timeout the clock runs.
MaxOverrun == 1

MaxElapsed == timeoutOf("generateRoadmap") + MaxOverrun

\* The messages makeGeminiRequest throws.
MsgUnavailable == "AI service is temporarily unavailable. Please try again later."
MsgFailed      == "AI request failed: <status> - <errorText>"
MsgTimeout     == "Request timeout - the AI service is taking too long to respond. Please try again."
MsgNetwork     == "Network connection error. Please check your internet connection and try again."

\* The messages of the TypeError a browser's fetch rejects with.
FetchFailureMessages ==
    {"Failed to fetch", "NetworkError when attempting to fetch resource.", "Load failed"}

\* An error: its name, its message and, for MsgFailed, the status and the
\* body text the message is built from.
Err(name, message) == [name |-> name, message |-> message, status |-> 0, detail |-> << >>]

ErrFailed(status, errorText) ==
    [name |-> "Error", message |-> MsgFailed, status |-> status, detail |-> errorText]

\* error.message.includes("fetch")
messageIncludesFetch(error) ==
    \/ error.message \in {"Failed to fetch", "NetworkError when attempting to fetch resource."}
    \/ (error.message = MsgFailed /\ includes(error.detail, <<"f", "e", "t", "c", "h">>))

\* The error the catch block of makeGeminiRequest throws for a caught error.
catchBlock(error) ==
    IF error.name = "AbortError" THEN Err("Error", MsgTimeout)
    ELSE IF messageIncludesFetch(error) THEN Err("Error", MsgNetwork)
    ELSE error

\* The error thrown for a response that is not ok, given its body text.
statusError(status, errorText) ==
    IF status = 429 THEN Err("Error", "API rate limit exceeded. Please try again in a few minutes.")
    ELSE IF status = 401 THEN Err("Error", "Invalid API key. Please check your Gemini API configuration.")
    ELSE IF status >= 500 THEN Err("Error", MsgUnavailable)
    ELSE ErrFailed(status, errorText)

Pending == [state |-> "pending", error |-> Err("none", ""), value |-> JNone]
Resolved(v) == [state |-> "resolved", error |-> Err("none", ""), value |-> v]
Rejected(e) == [state |-> "rejected", error |-> e, value |-> JNone]

\* What the body of an ok response leads to: data is the parsed body,
\* [shape, text], shape telling which of candidates, content and parts exist.
okOutcome(data) ==
    IF data.shape \in {"noCandidates", "emptyCandidates", "noContent"}
    THEN [cleaned |-> << >>, result |-> Rejected(catchBlock(
                        Err("Error", "Invalid response from AI service. Please try again.")))]
    ELSE IF data.shape = "noParts"
    THEN [cleaned |-> << >>, result |-> Rejected(catchBlock(
                        Err("TypeError", "Cannot read properties of undefined (reading '0')")))]
    ELSE
        LET cleanedContent == cleanJsonResponse(data.text)
            parsed == JSONparse(cleanedContent)
        IN  IF cleanedContent = << >>
               \/ (~startsWith(cleanedContent, <<"[">>) /\ ~startsWith(cleanedContent, <<"{">>))
            THEN [cleaned |-> cleanedContent,
                  result |-> Rejected(catchBlock(
                      Err("Error", "AI returned invalid data format. Please try again.")))]
            ELSE IF parsed.ok
            THEN [cleaned |-> cleanedContent, result |-> Resolved(parsed.value)]
            ELSE [cleaned |-> cleanedContent,
                  result |-> Rejected(catchBlock(
                      Err("Error", "Failed to process AI response. Please try again.")))]

\* The exported function around makeGeminiRequest: its format check and its
\* catch, which throws new Error(error.message || <default>).
exported(fn, result) ==
    IF result.state = "resolved"
    THEN IF fn = "generateLessonContent"
         THEN IF result.value.t \in {"arr", "obj"} THEN result
              ELSE Rejected(Err("Error", "Invalid lesson content format received from AI"))
         ELSE IF result.value.t = "arr" THEN result
         ELSE Rejected(Err("Error",
                  IF fn = "generateQuestions"
                  THEN "Invalid questions format received from AI"
                  ELSE "Invalid roadmap format received from AI"))
    ELSE IF result.state = "rejected"
    THEN Rejected([result.error EXCEPT !.name = "Error"])
    ELSE result


\* The longest array or object of a generated JSON value.
MaxItems == 2

AtomValues == {J("num", <<"1">>, << >>), J("str", <<"]", "}", "{", "[">>, << >>)}

Keys == <<(<<"a">>), (<<"b">>)>>

\* Arrays and objects of at most MaxItems values drawn from vals; the n-th
\* member of an object has the n-th key.
Containers(vals) ==
    LET seqs == UNION {[1..n -> vals] : n \in 0..MaxItems} IN
    {J("arr", << >>, q) : q \in seqs}
    \cup {J("obj", << >>,
             [i \in 1..Len(q) |-> J("mem", Keys[((i - 1) % Len(Keys)) + 1], <<q[i]>>)]) :
           q \in seqs}

\* The arrays and objects a reply may hold: of atoms, and one level deeper.
JsonDocuments ==
    LET flat == Containers(AtomValues) IN
    flat \cup {J("arr", << >>, <<d>>) : d \in flat}
         \cup {J("obj", << >>, <<J("mem", Keys[1], <<d>>)>>) : d \in flat}

\* The text of a reply that wraps the JSON text in a code fence.
fenced(open, text, ws) == ws \o open \o <<"\n">> \o text \o <<"\n">> \o Fence \o ws

NoReply == [shape |-> "none", text |-> << >>, fencedJson |-> FALSE,
            embedded |-> << >>, value |-> JNone]

\* Replies whose text is a JSON document in a code fence.
FencedReplies ==
    {[shape |-> "text", text |-> fenced(open, stringify(d, sep), sep), fencedJson |-> TRUE,
      embedded |-> stringify(d, sep), value |-> d] :
        d \in JsonDocuments, open \in {FenceJson, Fence}, sep \in {<< >>, <<" ">>}}

\* Other replies: bare JSON, JSON after prose, text that is no JSON, texts cut
\* short, and bodies that lack candidates, content or parts.
OtherReplies ==
    {[NoReply EXCEPT !.shape = "text", !.text = t] :
        t \in {<<"[", "1", "]">>,
               <<"H", "i", ":", " ", "{", Quote, "a", Quote, ":", "1", "}">>,
               <<"H", "i", ":", " ">>,
               << >>,
               <<"[", "1", ",">>,
               <<"{", "1", "}">>,
               FenceJson \o <<"\n", "[", "1", ",", "]", "\n">> \o Fence,
               <<"{", "}", " ", "[", "]">>}}
    \cup {[NoReply EXCEPT !.shape = sh] :
            sh \in {"noCandidates", "emptyCandidates", "noContent", "noParts", "notJson"}}

OkStatuses    == {200}
NotOkStatuses == {400, 401, 404, 429, 500, 503}

ErrorTexts == {<< >>, <<"b", "a", "d">>, <<"p", "r", "e", "f", "e", "t", "c", "h">>}

\* What the endpoint does with a request.
Environments ==
    {[kind |-> "noKey", status |-> 0, errorText |-> << >>, data |-> NoReply,
      message |-> ""]}
    \cup {[kind |-> "networkError", status |-> 0, errorText |-> << >>, data |-> NoReply,
           message |-> m] : m \in FetchFailureMessages}
    \cup {[kind |-> "reply", status |-> st, errorText |-> << >>, data |-> d,
           message |-> ""] : st \in OkStatuses, d \in FencedReplies \cup OtherReplies}
    \cup {[kind |-> "reply", status |-> st, errorText |-> t, data |-> NoReply,
           message |-> ""] : st \in NotOkStatuses, t \in ErrorTexts}

GeminiInit ==
    /\ g_fn = "none"
    /\ g_env = CHOOSE e \in Environments : e.kind = "noKey"
    /\ g_pc = "idle"
    /\ g_timer = "unset"
    /\ g_elapsed = 0
    /\ g_cleaned = << >>
    /\ g_result = Pending
    /\ g_caller = Pending
    /\ g_last = "none"

\* makeGeminiRequest settles with result: the exported function settles too.
settle(step, result, cleaned) ==
    /\ g_pc' = "settled"
    /\ g_last' = step
    /\ g_cleaned' = cleaned
    /\ g_result' = result
    /\ g_caller' = exported(g_fn, result)

\* The exported function fn calls makeGeminiRequest, env being what the
\* endpoint will do: the timer is armed; without an API key the call throws
\* at once.
makeGeminiRequestCall(fn, env) ==
    /\ g_pc = "idle"
    /\ g_fn' = fn
    /\ g_env' = env
    /\ IF env.kind = "noKey"
       THEN /\ g_pc' = "settled"
            /\ g_last' = "noKey"
            /\ g_cleaned' = << >>
            /\ g_result' = Rejected(catchBlock(Err("Error",
                  "Gemini API key is not configured. Please check your environment variables.")))
            /\ g_caller' = exported(fn, g_result')
            /\ g_timer' = "cleared"
       ELSE /\ g_pc' = "fetching"
            /\ g_timer' = "armed"
            /\ UNCHANGED <<g_cleaned, g_result, g_caller, g_last>>
    /\ UNCHANGED <<g_elapsed>>
    /\ UNCHANGED outsideGemini

\* Time passes while the call is pending; an armed timer fires when it is due.
geminiTick ==
    /\ g_pc \in {"fetching", "errorBody", "okBody"}
    /\ g_elapsed < MaxElapsed
    /\ ~(g_timer = "armed" /\ g_elapsed >= timeoutOf(g_fn))
    /\ g_elapsed' = g_elapsed + 1
    /\ UNCHANGED <<g_fn, g_env, g_pc, g_timer, g_cleaned, g_result, g_caller, g_last>>
    /\ UNCHANGED outsideGemini

\* The timer fires: controller.abort() rejects the pending read with an
\* AbortError, which the catch block turns into the timeout message.
abortTimerFires ==
    /\ g_timer = "armed"
    /\ g_elapsed >= timeoutOf(g_fn)
    /\ g_pc \in {"fetching", "errorBody", "okBody"}
    /\ g_timer' = "fired"
    /\ settle("abort", Rejected(catchBlock(Err("AbortError", "The user aborted a request."))),
              << >>)
    /\ UNCHANGED <<g_fn, g_env, g_elapsed>>
    /\ UNCHANGED outsideGemini

\* fetch resolves with the response's status line and headers: clearTimeout.
fetchResolves ==
    /\ g_pc = "fetching"
    /\ g_env.kind = "reply"
    /\ g_timer' = "cleared"
    /\ g_pc' = IF g_env.status \in OkStatuses THEN "okBody" ELSE "errorBody"
    /\ UNCHANGED <<g_fn, g_env, g_elapsed, g_cleaned, g_result, g_caller, g_last>>
    /\ UNCHANGED outsideGemini

\* fetch rejects with the browser's TypeError.
fetchRejects ==
    /\ g_pc = "fetching"
    /\ g_env.kind = "networkError"
    /\ g_timer' = "cleared"
    /\ settle("fetchRejects", Rejected(catchBlock(Err("TypeError", g_env.message))), << >>)
    /\ UNCHANGED <<g_fn, g_env, g_elapsed>>
    /\ UNCHANGED outsideGemini

\* response.text() of a response that is not ok resolves.
errorBodyRead ==
    /\ g_pc = "errorBody"
    /\ settle("errorBodyRead",
              Rejected(catchBlock(statusError(g_env.status, g_env.errorText))), << >>)
    /\ UNCHANGED <<g_fn, g_env, g_elapsed, g_timer>>
    /\ UNCHANGED outsideGemini

\* response.json() of an ok response resolves, or rejects with a SyntaxError
\* when the body is no JSON.
okBodyRead ==
    /\ g_pc = "okBody"
    /\ IF g_env.data.shape = "notJson"
       THEN settle("okBodyRead",
                   Rejected(catchBlock(Err("SyntaxError", "Unexpected token"))), << >>)
       ELSE LET o == okOutcome(g_env.data) IN settle("okBodyRead", o.result, o.cleaned)
    /\ UNCHANGED <<g_fn, g_env, g_elapsed, g_timer>>
    /\ UNCHANGED outsideGemini

\* The connection fails while the body is read.
bodyReadFails ==
    /\ g_pc \in {"errorBody", "okBody"}
    /\ \E m \in FetchFailureMessages :
          settle("bodyReadFails", Rejected(catchBlock(Err("TypeError", m))), << >>)
    /\ UNCHANGED <<g_fn, g_env, g_elapsed, g_timer>>
    /\ UNCHANGED outsideGemini

GeminiNext ==
    \/ \E fn \in GeminiFunctions, env \in Environments : makeGeminiRequestCall(fn, env)
    \/ geminiTick
    \/ abortTimerFires
    \/ fetchResolves
    \/ fetchRejects
    \/ errorBodyRead
    \/ okBodyRead
    \/ bodyReadFails

\* ------------------------------------------------------- hooks/useToast

\* The most toasts created in one run.
MaxToasts == 3

\* The components that call useToast(), each with the show functions it
\* takes from the hook.  App takes only toasts and removeToast, and hands
\* them to ToastContainer.  Every call of useToast() has a state of its own.
ToastCallers ==
    [App            |-> {},
     AuthProvider   |-> {"showError", "showWarning"},
     OnboardingFlow |-> {"showError", "showSuccess"},
     RoadmapView    |-> {"showError", "showSuccess", "showWarning"},
     LessonView     |-> {"showError", "showSuccess"}]

ToastInit ==
    /\ t_toasts = [c \in DOMAIN ToastCallers |-> << >>]
    /\ t_created = {}
    /\ t_removed = {}
    /\ t_nextId = 1

\* addToast of component c's hook: the toast is appended to that hook's state.
addToast(c, options) ==
    /\ t_nextId <= MaxToasts
    /\ t_toasts' = [t_toasts EXCEPT ![c] = Append(@, [options EXCEPT !.id = t_nextId])]
    /\ t_created' = t_created \cup {[id |-> t_nextId, by |-> c]}
    /\ t_nextId' = t_nextId + 1

\* Component c calls showError, showWarning or showSuccess of its hook.
showToast(c, fn, action) ==
    /\ fn \in ToastCallers[c]
    /\ fn = "showSuccess" => action = "none"
    /\ addToast(c, [id |-> 0,
                    type |-> CASE fn = "showError" -> "error"
                               [] fn = "showWarning" -> "warning"
                               [] OTHER -> "success",
                    duration |-> CASE fn = "showError" -> 8000
                                   [] fn = "showWarning" -> 6000
                                   [] OTHER -> 0,
                    action |-> action])
    /\ UNCHANGED t_removed
    /\ UNCHANGED outsideToast

\* removeToast(id) of component c's hook.
removeToast(c, id) ==
    /\ t_toasts' = [t_toasts EXCEPT ![c] = SelectSeq(@, LAMBDA toast : toast.id # id)]
    /\ t_removed' = t_removed \cup {id}
    /\ UNCHANGED <<t_created, t_nextId>>
    /\ UNCHANGED outsideToast

ToastNext ==
    \/ \E c \in DOMAIN ToastCallers, fn \in {"showError", "showWarning", "showSuccess"},
          action \in {"none", "retry"} : showToast(c, fn, action)
    \/ \E c \in DOMAIN ToastCallers, id \in 1..MaxToasts :
          /\ \E i \in 1..Len(t_toasts[c]) : t_toasts[c][i].id = id
          /\ removeToast(c, id)

\* ------------------------------------------------- the store (schema SQL)

\* The signed-in user, and the value of user when nobody is signed in.
User == "u1"
NoUser == "null"

\* null, where a row is expected: the ids of rows start at 1.
Null == [id |-> 0]

\* The most rows inserted in one run, and the most roadmaps at a time.
MaxIds == 4
MaxRoadmaps == 1

\* The most weeks of a generated roadmap, and the most topics of a week.
MaxWeeks == 2
MaxTopics == 2

\* The weeks generateRoadmap may resolve with: any array passes its check,
\* so a week may come without the member topics (hasTopics is FALSE).
Weeks ==
    {[title |-> "week", hasTopics |-> TRUE, topics |-> [i \in 1..n |-> [title |-> i]]] :
        n \in 1..MaxTopics}
    \cup {[title |-> "week", hasTopics |-> FALSE, topics |-> << >>]}
FullWeek == [title |-> "week", hasTopics |-> TRUE,
             topics |-> [i \in 1..MaxTopics |-> [title |-> i]]]
\* The roadmaps tried: every week but the last has MaxTopics topics.
RoadmapPlans ==
    {p \in UNION {[1..n -> Weeks] : n \in 0..MaxWeeks} :
        \A w \in 1..(Len(p) - 1) : p[w] = FullWeek}

\* How generateRoadmap settles for its caller.
GenerateRoadmapResults ==
    {[Resolved(JNone) EXCEPT !.value = p] : p \in RoadmapPlans}
    \cup {[Rejected(Err("Error", msg)) EXCEPT !.value = << >>] :
             msg \in {MsgUnavailable, MsgTimeout}}

DbInit ==
    /\ d_profiles = {[id |-> User, goal |-> "null"]}
    /\ d_roadmaps = {}
    /\ d_lessons = {}
    /\ d_progress = {}
    /\ d_completions = {}
    /\ d_nextId = 1

\* The rows as inserted: the i-th gets the id first + i - 1.
withIds(rows, first) == {[id |-> first + i - 1] @@ rows[i] : i \in 1..Len(rows)}

\* ON DELETE CASCADE: what is left of each table once the lessons gone are
\* deleted, and once roadmap id is deleted.
completionsWithout(gone) == {c \in d_completions : c.lesson_id \notin {l.id : l \in gone}}
lessonsOf(id) == {l \in d_lessons : l.roadmap_id = id}

\* week.topics.map(...) throws a TypeError for a week without topics.
topicsMissing(weeks) == \E w \in 1..Len(weeks) : ~weeks[w].hasTopics

RECURSIVE lessonsOfWeeks(_, _, _)
\* The lesson rows made from the w-th week on: week_number is the week's
\* index plus one, order_index the topic's index in its week.
lessonsOfWeeks(weeks, w, roadmapId) ==
    IF w > Len(weeks) THEN << >>
    ELSE [t \in 1..Len(weeks[w].topics) |->
             [roadmap_id |-> roadmapId, week_number |-> w,
              title |-> weeks[w].topics[t].title, order_index |-> t - 1]]
         \o lessonsOfWeeks(weeks, w + 1, roadmapId)

\* ---------------------------------------------------------- LessonView

\* The most assessment questions of a generated lesson, the most runs of
\* fetchLesson in flight, and the highest completed_lessons counted.
MaxQuestions == 2
MaxRuns == 2
MaxCompletedLessons == 3

\* v[key] of JavaScript: JNone stands for undefined.
get(v, key) ==
    IF v.t = "obj" /\ \E i \in 1..Len(v.items) : v.items[i].s = <<key>>
    THEN v.items[CHOOSE i \in 1..Len(v.items) : v.items[i].s = <<key>>].items[1]
    ELSE JNone

\* The lesson contents generateLessonContent may resolve with: it accepts
\* every object, arrays included, whatever the members are.  A word whose
\* letters are never looked at is one symbol of the text.
LessonContents ==
    LET str(word) == J("str", <<word>>, << >>)
        arr(items) == J("arr", << >>, items)
        obj(members) == J("obj", << >>, members)
        member(key, v) == J("mem", <<key>>, <<v>>)
    IN
    {obj(<<member("lessonContent", str("text")),
           member("keyConcepts", arr(<<str("concept")>>)),
           member("exampleCode", arr(<< >>)),
           member("assessmentQuestions",
                  arr([i \in 1..n |-> obj(<<member("question", str("question")),
                                            member("answer", str("a"))>>)]))>>) :
        n \in 0..MaxQuestions}
    \cup {arr(<< >>)}

\* How generateLessonContent settles for its caller.
LessonContentResults ==
    {exported("generateLessonContent", r) :
        r \in {Resolved(c) : c \in LessonContents} \cup {Rejected(Err("Error", MsgTimeout))}}

\* What the user may enter as an answer.
Answers == {"a", "b"}

\* localStorage.getItem(`lesson_${lessonId}`): the empty text stands for null.
getItem(lessonId) ==
    IF \E e \in ls_items : e.key = lessonId
    THEN (CHOOSE e \in ls_items : e.key = lessonId).value
    ELSE << >>

\* localStorage after setItem(`lesson_${lessonId}`, value).
setItem(lessonId, value) ==
    {e \in ls_items : e.key # lessonId} \cup {[key |-> lessonId, value |-> value]}

\* What LessonView renders, "throws" where rendering throws a TypeError:
\* on the lesson page for content whose lessonContent is no string or whose
\* keyConcepts or exampleCode is missing, on the test page where
\* assessmentQuestions[currentQuestion] is undefined.
renderLessonView ==
    LET content == lv_lessonContent
        questions == get(content, "assessmentQuestions")
    IN
    IF lv_loading THEN "loading"
    ELSE IF lv_lesson = Null \/ content = JNone THEN "notFound"
    ELSE IF ~lv_showTest
    THEN IF \/ get(content, "lessonContent").t # "str"
            \/ get(content, "keyConcepts").t # "arr"
            \/ get(content, "exampleCode").t \notin {"arr", "str"}
         THEN "throws" ELSE "lesson"
    ELSE IF ~lv_testCompleted
    THEN IF questions.t # "arr" \/ lv_currentQuestion >= Len(questions.items)
         THEN "throws" ELSE "test"
    ELSE "results"

\* The runs of fetchLesson in flight once the component is unmounted: their
\* state updates no longer reach a component.
detached(runs) == [i \in 1..Len(runs) |-> [runs[i] EXCEPT !.attached = FALSE]]

\* fetchLesson up to its await of generateLessonContent, or to its end:
\* cur is the component's state [lesson, content, loading, runs, shown].
fetchLessonBegun(lessonId, fail, cur) ==
    LET rows == {x \in d_lessons : x.id = lessonId}
        lessonData == CHOOSE x \in rows : TRUE
        cachedContent == getItem(lessonId)
        parsed == JSONparse(cachedContent)
        failed == [cur EXCEPT !.shown = "errorWithRetry", !.loading = FALSE]
    IN
    IF fail = "lessons" \/ rows = {} THEN failed
    ELSE IF fail = "lessons.all" THEN [failed EXCEPT !.lesson = lessonData]
    ELSE IF cachedContent # << >>
    THEN [cur EXCEPT !.lesson = lessonData,
                     !.content = IF parsed.ok THEN parsed.value ELSE @,
                     !.shown = IF parsed.ok THEN @ ELSE "errorWithRetry",
                     !.loading = FALSE]
    ELSE [cur EXCEPT !.lesson = lessonData,
                     !.runs = Append(@, [lessonId |-> lessonId, attached |-> TRUE])]

\* The user opens /lessons/<lessonId>: LessonView is mounted and its effect
\* runs fetchLesson and checkCompletion, which leaves isCompleted alone
\* when its request fails.
openLesson(lessonId, fail, checkFails) ==
    /\ a_user # NoUser
    /\ lessonId \in {x.id : x \in d_lessons}
    /\ Len(lv_runs) < MaxRuns
    /\ page' = "lesson"
    /\ lv_lessonId' = lessonId
    /\ \E f \in {fetchLessonBegun(lessonId, fail,
                     [lesson |-> Null, content |-> JNone, loading |-> TRUE,
                      runs |-> detached(lv_runs), shown |-> "none"])} :
          /\ lv_lesson' = f.lesson
          /\ lv_lessonContent' = f.content
          /\ lv_loading' = f.loading
          /\ lv_runs' = f.runs
          /\ shown' = f.shown
    /\ lv_isCompleted' = (~checkFails /\ \E c \in d_completions :
                             c.user_id = a_user /\ c.lesson_id = lessonId)
    /\ lv_showTest' = FALSE
    /\ lv_currentQuestion' = 0
    /\ lv_userAnswers' = << >>
    /\ lv_testCompleted' = FALSE
    /\ lv_score' = 0
    /\ rv_roadmap' = Null
    /\ rv_loading' = TRUE
    /\ rv_showDeleteModal' = FALSE
    /\ rv_processing' = FALSE
    /\ UNCHANGED <<dbVars, authVars, ls_items>>
    /\ ll_lessons' = {} /\ ll_completions' = {} /\ ll_loading' = TRUE /\ ll_error' = FALSE
    /\ UNCHANGED <<outsidePages, onboardingVars>>

\* fetchLesson run by the Try Again button of the "Lesson not found" page.
fetchLesson(fail) ==
    /\ page = "lesson"
    /\ renderLessonView = "notFound"
    /\ Len(lv_runs) < MaxRuns
    /\ \E f \in {fetchLessonBegun(lv_lessonId, fail,
                     [lesson |-> lv_lesson, content |-> lv_lessonContent,
                      loading |-> lv_loading, runs |-> lv_runs, shown |-> shown])} :
          /\ lv_lesson' = f.lesson
          /\ lv_lessonContent' = f.content
          /\ lv_loading' = f.loading
          /\ lv_runs' = f.runs
          /\ shown' = f.shown
    /\ UNCHANGED <<lv_lessonId, lv_isCompleted, lv_showTest, lv_currentQuestion,
                   lv_userAnswers, lv_testCompleted, lv_score>>
    /\ UNCHANGED <<dbVars, authVars, ls_items, page, rv_roadmap, rv_loading,
                   rv_showDeleteModal, rv_processing>>
    /\ UNCHANGED <<outsidePages, listVars, onboardingVars>>

\* generateLessonContent settles for the i-th run in flight: the content is
\* shown and written to localStorage, or the catch block asks for a toast.
generationSettles(i, result) ==
    LET run == lv_runs[i] IN
    /\ i \in 1..Len(lv_runs)
    /\ lv_runs' = SubSeq(lv_runs, 1, i - 1) \o SubSeq(lv_runs, i + 1, Len(lv_runs))
    /\ ls_items' = IF result.state = "resolved"
                   THEN setItem(run.lessonId, stringify(result.value, << >>))
                   ELSE ls_items
    /\ IF run.attached
       THEN /\ lv_lessonContent' = IF result.state = "resolved" THEN result.value
                                   ELSE lv_lessonContent
            /\ shown' = IF result.state = "resolved" THEN shown ELSE "errorWithRetry"
            /\ lv_loading' = FALSE
       ELSE UNCHANGED <<lv_lessonContent, shown, lv_loading>>
    /\ UNCHANGED <<lv_lessonId, lv_lesson, lv_isCompleted, lv_showTest, lv_currentQuestion,
                   lv_userAnswers, lv_testCompleted, lv_score>>
    /\ UNCHANGED <<dbVars, authVars, page, rv_roadmap, rv_loading,
                   rv_showDeleteModal, rv_processing>>
    /\ UNCHANGED <<outsidePages, listVars, onboardingVars>>

\* supabase.from("lesson_completions").upsert(row) without onConflict: the
\* conflict target is the primary key, and row carries no id, so the row is
\* inserted under a new id unless UNIQUE(user_id, lesson_id) or the foreign
\* key on lessons rejects it.  The error comes back in the result, which
\* the callers do not look at.  The table after the request:
completionUpserted(row, fail) ==
    IF \/ fail = "lesson_completions"
       \/ \A l \in d_lessons : l.id # row.lesson_id
       \/ \E c \in d_completions : c.user_id = row.user_id /\ c.lesson_id = row.lesson_id
    THEN d_completions
    ELSE d_completions \cup {[id |-> d_nextId] @@ row}

\* The user's progress record for the roadmap of the lesson shown.
progressData == {q \in d_progress : q.user_id = a_user /\ q.roadmap_id = lv_lesson.roadmap_id}

\* "Update user progress" of handleMarkComplete and completeTest: the record
\* is read and, when it came, written back with completed_lessons + 1.
progressUpdated(fail) ==
    IF fail \in {"user_progress.select", "user_progress"} THEN d_progress
    ELSE {IF q \in progressData
          THEN [q EXCEPT !.completed_lessons = @ + 1, !.total_time_spent = @ + 30]
          ELSE q : q \in d_progress}

\* The writes of handleMarkComplete and completeTest.
completionSaved(score, answers, fail) ==
    LET row == [user_id |-> a_user, lesson_id |-> lv_lessonId, score |-> score,
                answers |-> answers]
    IN
    /\ \A q \in progressData : q.completed_lessons < MaxCompletedLessons
    /\ d_completions' = completionUpserted(row, fail)
    /\ d_nextId' = IF d_completions' = d_completions THEN d_nextId ELSE d_nextId + 1
    /\ d_progress' = progressUpdated(fail)
    /\ lv_isCompleted' = TRUE
    /\ shown' = "success"
    /\ UNCHANGED <<d_profiles, d_roadmaps, d_lessons>>

handleMarkComplete(fail) ==
    /\ page = "lesson"
    /\ renderLessonView = "lesson"
    /\ ~lv_isCompleted
    /\ completionSaved(100, << >>, fail)
    /\ UNCHANGED <<lv_lessonId, lv_lesson, lv_lessonContent, lv_loading, lv_runs,
                   lv_showTest, lv_currentQuestion, lv_userAnswers, lv_testCompleted,
                   lv_score>>
    /\ UNCHANGED <<authVars, ls_items, page, rv_roadmap, rv_loading,
                   rv_showDeleteModal, rv_processing>>
    /\ UNCHANGED <<outsidePages, listVars, onboardingVars>>

handleStartTest ==
    /\ page = "lesson"
    /\ renderLessonView = "lesson"
    /\ lv_showTest' = TRUE
    /\ lv_currentQuestion' = 0
    /\ lv_userAnswers' = << >>
    /\ lv_testCompleted' = FALSE
    /\ UNCHANGED <<lv_lessonId, lv_lesson, lv_lessonContent, lv_loading, lv_runs,
                   lv_isCompleted, lv_score, shown>>
    /\ UNCHANGED <<dbVars, authVars, ls_items, page, rv_roadmap, rv_loading,
                   rv_showDeleteModal, rv_processing>>
    /\ UNCHANGED <<outsidePages, listVars, onboardingVars>>

handleAnswerSelect(answer) ==
    /\ page = "lesson"
    /\ renderLessonView = "test"
    /\ lv_userAnswers' = IF Len(lv_userAnswers) > lv_currentQuestion
                         THEN [lv_userAnswers EXCEPT ![lv_currentQuestion + 1] = answer]
                         ELSE Append(lv_userAnswers, answer)
    /\ UNCHANGED <<lv_lessonId, lv_lesson, lv_lessonContent, lv_loading, lv_runs,
                   lv_isCompleted, lv_showTest, lv_currentQuestion, lv_testCompleted,
                   lv_score, shown>>
    /\ UNCHANGED <<dbVars, authVars, ls_items, page, rv_roadmap, rv_loading,
                   rv_showDeleteModal, rv_processing>>
    /\ UNCHANGED <<outsidePages, listVars, onboardingVars>>

\* finalScore of completeTest: Math.round((correctAnswers / questions.length) * 100)
finalScore(questions, userAnswers) ==
    LET correctAnswers == Cardinality({i \in 1..Len(questions) :
                              i <= Len(userAnswers)
                              /\ <<userAnswers[i]>> = get(questions[i], "answer").s})
    IN  (200 * correctAnswers + Len(questions)) \div (2 * Len(questions))

\* handleNextQuestion, enabled once the question shown is answered: the next
\* question, or completeTest after the last one.
handleNextQuestion(fail) ==
    LET questions == get(lv_lessonContent, "assessmentQuestions").items IN
    /\ page = "lesson"
    /\ renderLessonView = "test"
    /\ Len(lv_userAnswers) > lv_currentQuestion
    /\ IF lv_currentQuestion < Len(questions) - 1
       THEN /\ lv_currentQuestion' = lv_currentQuestion + 1
            /\ fail = "none"
            /\ UNCHANGED <<dbVars, lv_isCompleted, lv_testCompleted, lv_score, shown>>
       ELSE /\ lv_score' = finalScore(questions, lv_userAnswers)
            /\ lv_testCompleted' = TRUE
            /\ completionSaved(lv_score', lv_userAnswers, fail)
            /\ UNCHANGED lv_currentQuestion
    /\ UNCHANGED <<lv_lessonId, lv_lesson, lv_lessonContent, lv_loading, lv_runs,
                   lv_showTest, lv_userAnswers>>
    /\ UNCHANGED <<authVars, ls_items, page, rv_roadmap, rv_loading,
                   rv_showDeleteModal, rv_processing>>
    /\ UNCHANGED <<outsidePages, listVars, onboardingVars>>

\* "Back to Lesson" of the test and result pages: setShowTest(false).
backToLesson ==
    /\ page = "lesson"
    /\ renderLessonView \in {"test", "results"}
    /\ lv_showTest' = FALSE
    /\ UNCHANGED <<lv_lessonId, lv_lesson, lv_lessonContent, lv_loading, lv_runs,
                   lv_isCompleted, lv_currentQuestion, lv_userAnswers, lv_testCompleted,
                   lv_score, shown>>
    /\ UNCHANGED <<dbVars, authVars, ls_items, page, rv_roadmap, rv_loading,
                   rv_showDeleteModal, rv_processing>>
    /\ UNCHANGED <<outsidePages, listVars, onboardingVars>>

\* LessonsList before its first fetch, and after it is unmounted.
LessonsListInit ==
    /\ ll_lessons = {}
    /\ ll_completions = {}
    /\ ll_loading = TRUE
    /\ ll_error = FALSE

LessonViewInit ==
    /\ lv_lessonId = 0
    /\ lv_lesson = Null
    /\ lv_lessonContent = JNone
    /\ lv_loading = TRUE
    /\ lv_runs = << >>
    /\ lv_isCompleted = FALSE
    /\ lv_showTest = FALSE
    /\ lv_currentQuestion = 0
    /\ lv_userAnswers = << >>
    /\ lv_testCompleted = FALSE
    /\ lv_score = 0
    /\ ls_items = {}

\* LessonView is unmounted: the runs of fetchLesson in flight go on.
LessonViewUnmounted ==
    /\ lv_lessonId' = 0
    /\ lv_lesson' = Null
    /\ lv_lessonContent' = JNone
    /\ lv_loading' = TRUE
    /\ lv_runs' = detached(lv_runs)
    /\ lv_isCompleted' = FALSE
    /\ lv_showTest' = FALSE
    /\ lv_currentQuestion' = 0
    /\ lv_userAnswers' = << >>
    /\ lv_testCompleted' = FALSE
    /\ lv_score' = 0
    /\ UNCHANGED ls_items

\* The store once handleGenerateRoadmap has succeeded for a roadmap of one
\* week with one topic.
DbAfterOnboarding ==
    LET weeks == <<[title |-> "week", hasTopics |-> TRUE, topics |-> <<[title |-> 1]>>]>> IN
    /\ d_profiles = {[id |-> User, goal |-> "goal"]}
    /\ d_roadmaps = {[id |-> 1, user_id |-> User, weeks |-> weeks]}
    /\ d_lessons = withIds(lessonsOfWeeks(weeks, 1, 1), 2)
    /\ d_progress = {[id |-> 3, user_id |-> User, roadmap_id |-> 1,
                      total_lessons |-> 1, completed_lessons |-> 0,
                      total_time_spent |-> 0, current_week |-> 1]}
    /\ d_completions = {}
    /\ d_nextId = 4

\* ---------------------------------------------------------- LessonsList

\* fetchLessons storing the lessons before it looks at the completions
\* query's error.
fetchLessonsLessonsFirst(fail) ==
    LET mounted == page = "lessons"
        mine == {r \in d_roadmaps : r.user_id = a_user}
        roadmapData == CHOOSE r \in mine : TRUE
        failed == \/ fail \in {"roadmaps", "timeout"}
                  \/ mine # {} /\ fail \in {"lessons", "lesson_completions", "both"}
        lessons == IF mounted THEN ll_lessons ELSE {}
        completions == IF mounted THEN ll_completions ELSE {}
    IN
    /\ a_user # NoUser
    /\ page' = "lessons"
    /\ ll_error' = failed
    /\ ll_loading' = FALSE
    /\ ll_lessons' = IF failed /\ fail # "lesson_completions" THEN lessons
                     ELSE IF mine = {} THEN {} ELSE lessonsOf(roadmapData.id)
    /\ ll_completions' = IF failed THEN completions
                         ELSE IF mine = {} THEN {}
                         ELSE {c \in d_completions : c.user_id = a_user}
    /\ shown' = "none"
    /\ rv_roadmap' = Null
    /\ rv_loading' = TRUE
    /\ rv_showDeleteModal' = FALSE
    /\ rv_processing' = FALSE
    /\ LessonViewUnmounted
    /\ UNCHANGED <<dbVars, authVars>>
    /\ UNCHANGED <<outsidePages, onboardingVars>>

\* fetchLessons, run by the effect when the page is opened or the user
\* object changes, and by Try Again of its error page: fail names the query
\* that fails, if one does.  The lists are kept as sets of rows.
fetchLessons(fail) ==
    LET mounted == page = "lessons"
        mine == {r \in d_roadmaps : r.user_id = a_user}
        roadmapData == CHOOSE r \in mine : TRUE
        failed == \/ fail \in {"roadmaps", "timeout"}
                  \/ mine # {} /\ fail \in {"lessons", "lesson_completions", "both"}
        lessons == IF mounted THEN ll_lessons ELSE {}
        completions == IF mounted THEN ll_completions ELSE {}
    IN
    /\ a_user # NoUser
    /\ page' = "lessons"
    /\ ll_error' = failed
    /\ ll_loading' = FALSE
    /\ ll_lessons' = IF failed THEN lessons
                     ELSE IF mine = {} THEN {} ELSE lessonsOf(roadmapData.id)
    /\ ll_completions' = IF failed THEN completions
                         ELSE IF mine = {} THEN {}
                         ELSE {c \in d_completions : c.user_id = a_user}
    /\ shown' = "none"
    /\ rv_roadmap' = Null
    /\ rv_loading' = TRUE
    /\ rv_showDeleteModal' = FALSE
    /\ rv_processing' = FALSE
    /\ LessonViewUnmounted
    /\ UNCHANGED <<dbVars, authVars>>
    /\ UNCHANGED <<outsidePages, onboardingVars>>

\* ------------------------------------------------------- OnboardingFlow

\* An object given as a toast's action, by the properties read from it:
\* label, onClick and action, "undefined" where the object has none.  This
\* one is undefined itself.
Undefined ==
    [defined |-> FALSE, label |-> "undefined", onClick |-> "undefined",
     action |-> [label |-> "undefined", onClick |-> "undefined"]]

\* showError of useToast: the toast addToast builds, with the third argument
\* in its action field.
showError(action) == [type |-> "error", duration |-> 8000, action |-> action]

\* OnboardingFlow before any toast of its own.
OnboardingInit ==
    /\ of_loading = FALSE
    /\ of_toast = [type |-> "none", duration |-> 0, action |-> Undefined]

\* handleGenerateRoadmap going to the dashboard although updateProfile
\* has thrown.
handleGenerateRoadmapNavigatingEarly(gen, fail) ==
    LET roadmapData == gen.value
        roadmap == [id |-> d_nextId, user_id |-> a_user, weeks |-> roadmapData]
        lessons == lessonsOfWeeks(roadmapData, 1, roadmap.id)
        reached ==
            IF a_user = NoUser \/ gen.state = "rejected" \/ fail = "roadmaps" THEN 0
            ELSE IF topicsMissing(roadmapData) \/ (Len(lessons) > 0 /\ fail = "lessons") THEN 1
            ELSE IF fail = "user_progress" THEN 2
            ELSE IF fail = "profiles" THEN 3
            ELSE 4
        n == IF reached >= 2 THEN Len(lessons) ELSE 0
        progress == [id |-> d_nextId + 1 + n, user_id |-> a_user, roadmap_id |-> roadmap.id,
                     total_lessons |-> Len(lessons), completed_lessons |-> 0,
                     total_time_spent |-> 0, current_week |-> 1]
        profile == [id |-> a_user, goal |-> "goal"]
    IN
    /\ page = "onboarding"
    /\ d_nextId <= MaxIds
    /\ Cardinality(d_roadmaps) < MaxRoadmaps
    /\ d_roadmaps' = IF reached >= 1 THEN d_roadmaps \cup {roadmap} ELSE d_roadmaps
    /\ d_lessons' = IF reached >= 2 THEN d_lessons \cup withIds(lessons, d_nextId + 1)
                    ELSE d_lessons
    /\ d_progress' = IF reached >= 3 THEN d_progress \cup {progress} ELSE d_progress
    /\ d_profiles' = IF reached >= 4
                     THEN {q \in d_profiles : q.id # a_user} \cup {profile}
                     ELSE d_profiles
    /\ d_nextId' = d_nextId + (IF reached >= 1 THEN 1 ELSE 0) + n
                            + (IF reached >= 3 THEN 1 ELSE 0)
    /\ a_profile' = IF reached < 4 THEN a_profile
                    ELSE IF fail = "fetchProfile" THEN Null ELSE profile
    /\ shown' = IF reached = 4 THEN "success"
                  ELSE IF a_user # NoUser /\ gen.state = "rejected"
                          /\ gen.error.message = MsgUnavailable
                  THEN "errorWithRetry"
                  ELSE "error"
    /\ of_loading' = (a_user = NoUser /\ of_loading)
    /\ of_toast' = IF reached = 4 THEN of_toast
                    ELSE IF a_user = NoUser THEN showError(Undefined)
                    ELSE IF gen.state = "rejected" /\ gen.error.message = MsgUnavailable
                    THEN showError([Undefined EXCEPT
                                       !.defined = TRUE,
                                       !.action = [label |-> "Retry",
                                                   onClick |-> "handleGenerateRoadmap"]])
                    ELSE showError(Undefined)
    /\ page' = IF reached >= 3 THEN "dashboard" ELSE page
    /\ UNCHANGED <<d_completions, a_user, rv_roadmap, rv_loading, rv_showDeleteModal,
                   rv_processing, lessonVars>>
    /\ UNCHANGED <<outsidePages, listVars>>

\* handleGenerateRoadmap: gen is how generateRoadmap settles, fail names the
\* request that fails, if one does.  The writes are separate requests, so
\* those before the failing one stay.  With no user it returns after its
\* toast, before setLoading(true) and the first request.
handleGenerateRoadmap(gen, fail) ==
    LET roadmapData == gen.value
        roadmap == [id |-> d_nextId, user_id |-> a_user, weeks |-> roadmapData]
        lessons == lessonsOfWeeks(roadmapData, 1, roadmap.id)
        reached ==
            IF a_user = NoUser \/ gen.state = "rejected" \/ fail = "roadmaps" THEN 0
            ELSE IF topicsMissing(roadmapData) \/ (Len(lessons) > 0 /\ fail = "lessons") THEN 1
            ELSE IF fail = "user_progress" THEN 2
            ELSE IF fail = "profiles" THEN 3
            ELSE 4
        n == IF reached >= 2 THEN Len(lessons) ELSE 0
        progress == [id |-> d_nextId + 1 + n, user_id |-> a_user, roadmap_id |-> roadmap.id,
                     total_lessons |-> Len(lessons), completed_lessons |-> 0,
                     total_time_spent |-> 0, current_week |-> 1]
        profile == [id |-> a_user, goal |-> "goal"]
    IN
    /\ page = "onboarding"
    /\ d_nextId <= MaxIds
    /\ Cardinality(d_roadmaps) < MaxRoadmaps
    /\ d_roadmaps' = IF reached >= 1 THEN d_roadmaps \cup {roadmap} ELSE d_roadmaps
    /\ d_lessons' = IF reached >= 2 THEN d_lessons \cup withIds(lessons, d_nextId + 1)
                    ELSE d_lessons
    /\ d_progress' = IF reached >= 3 THEN d_progress \cup {progress} ELSE d_progress
    /\ d_profiles' = IF reached >= 4
                     THEN {q \in d_profiles : q.id # a_user} \cup {profile}
                     ELSE d_profiles
    /\ d_nextId' = d_nextId + (IF reached >= 1 THEN 1 ELSE 0) + n
                            + (IF reached >= 3 THEN 1 ELSE 0)
    /\ a_profile' = IF reached < 4 THEN a_profile
                    ELSE IF fail = "fetchProfile" THEN Null ELSE profile
    /\ shown' = IF reached = 4 THEN "success"
                  ELSE IF a_user # NoUser /\ gen.state = "rejected"
                          /\ gen.error.message = MsgUnavailable
                  THEN "errorWithRetry"
                  ELSE "error"
    /\ of_loading' = (a_user = NoUser /\ of_loading)
    /\ of_toast' = IF reached = 4 THEN of_toast
                    ELSE IF a_user = NoUser THEN showError(Undefined)
                    ELSE IF gen.state = "rejected" /\ gen.error.message = MsgUnavailable
                    THEN showError([Undefined EXCEPT
                                       !.defined = TRUE,
                                       !.action = [label |-> "Retry",
                                                   onClick |-> "handleGenerateRoadmap"]])
                    ELSE showError(Undefined)
    /\ page' = IF reached = 4 THEN "dashboard" ELSE page
    /\ UNCHANGED <<d_completions, a_user, rv_roadmap, rv_loading, rv_showDeleteModal,
                   rv_processing, lessonVars>>
    /\ UNCHANGED <<outsidePages, listVars>>

\* ---------------------------------------------------------- RoadmapView

\* What fetchRoadmapData leaves in the component's state, read from the
\* table given: [roadmap, shown].  The lessons and completions it also
\* reads feed the progress figures of the page and nothing else.
roadmapDataFetched(fail, roadmaps) ==
    LET mine == {r \in roadmaps : r.user_id = a_user}
        currentRoadmap == CHOOSE r \in mine : \A q \in mine : q.id <= r.id
    IN
    IF fail = "roadmaps" THEN [roadmap |-> rv_roadmap, shown |-> "errorWithRetry"]
    ELSE IF mine = {} THEN [roadmap |-> Null, shown |-> "none"]
    ELSE IF fail \in {"lessons", "lesson_completions"}
    THEN [roadmap |-> currentRoadmap, shown |-> "errorWithRetry"]
    ELSE [roadmap |-> currentRoadmap, shown |-> "none"]

\* fetchRoadmapData, run by the effect when the page is opened and by the
\* Retry action of its error toast.
fetchRoadmapData(fail) ==
    LET f == roadmapDataFetched(fail, d_roadmaps) IN
    /\ a_user # NoUser
    /\ page' = "roadmap"
    /\ rv_roadmap' = f.roadmap
    /\ shown' = f.shown
    /\ rv_loading' = FALSE
    /\ rv_showDeleteModal' = (page = "roadmap" /\ rv_showDeleteModal)
    /\ rv_processing' = (page = "roadmap" /\ rv_processing)
    /\ LessonViewUnmounted
    /\ UNCHANGED <<dbVars, authVars>>
    /\ ll_lessons' = {} /\ ll_completions' = {} /\ ll_loading' = TRUE /\ ll_error' = FALSE
    /\ UNCHANGED <<outsidePages, onboardingVars>>

\* Delete Roadmap of the page: the modal with the confirmation opens.
openDeleteModal ==
    /\ page = "roadmap"
    /\ rv_roadmap # Null
    /\ ~rv_showDeleteModal
    /\ rv_showDeleteModal' = TRUE
    /\ UNCHANGED <<page, shown, rv_roadmap, rv_loading, rv_processing>>
    /\ UNCHANGED <<dbVars, authVars, lessonVars>>
    /\ UNCHANGED <<outsidePages, listVars, onboardingVars>>

\* handleDeleteRoadmap without the cascade to lesson_completions.
handleDeleteRoadmapKeepingCompletions(fail) ==
    /\ page = "roadmap"
    /\ rv_showDeleteModal
    /\ ~rv_processing
    /\ rv_roadmap # Null
    /\ IF fail = "roadmaps"
       THEN /\ shown' = "error"
            /\ UNCHANGED <<dbVars, page>>
       ELSE /\ d_roadmaps' = {r \in d_roadmaps : r.id # rv_roadmap.id}
            /\ d_lessons' = d_lessons \ lessonsOf(rv_roadmap.id)
            /\ d_progress' = {q \in d_progress : q.roadmap_id # rv_roadmap.id}
            /\ shown' = "success"
            /\ page' = "onboarding"
            /\ UNCHANGED <<d_profiles, d_nextId, d_completions>>
    /\ rv_roadmap' = IF fail = "roadmaps" THEN rv_roadmap ELSE Null
    /\ rv_loading' = (fail # "roadmaps")
    /\ rv_showDeleteModal' = FALSE
    /\ rv_processing' = FALSE
    /\ UNCHANGED <<authVars, lessonVars>>
    /\ UNCHANGED <<outsidePages, listVars, onboardingVars>>

\* handleDeleteRoadmap: the delete cascades to the roadmap's lessons, their
\* completions and the progress record.
handleDeleteRoadmap(fail) ==
    /\ page = "roadmap"
    /\ rv_showDeleteModal
    /\ ~rv_processing
    /\ rv_roadmap # Null
    /\ IF fail = "roadmaps"
       THEN /\ shown' = "error"
            /\ UNCHANGED <<dbVars, page>>
       ELSE /\ d_roadmaps' = {r \in d_roadmaps : r.id # rv_roadmap.id}
            /\ d_lessons' = d_lessons \ lessonsOf(rv_roadmap.id)
            /\ d_progress' = {q \in d_progress : q.roadmap_id # rv_roadmap.id}
            /\ d_completions' = completionsWithout(lessonsOf(rv_roadmap.id))
            /\ shown' = "success"
            /\ page' = "onboarding"
            /\ UNCHANGED <<d_profiles, d_nextId>>
    /\ rv_roadmap' = IF fail = "roadmaps" THEN rv_roadmap ELSE Null
    /\ rv_loading' = (fail # "roadmaps")
    /\ rv_showDeleteModal' = FALSE
    /\ rv_processing' = FALSE
    /\ UNCHANGED <<authVars, lessonVars>>
    /\ UNCHANGED <<outsidePages, listVars, onboardingVars>>

\* handleAlterRoadmap: gen is how generateRoadmap settles, fail names the
\* request that fails, if one does; refetch is the same for the
\* fetchRoadmapData that ends a successful run.
handleAlterRoadmap(gen, fail, refetch) ==
    LET newRoadmapWeeks == gen.value
        id == rv_roadmap.id
        newLessons == lessonsOfWeeks(newRoadmapWeeks, 1, id)
        reached ==
            IF gen.state = "rejected" \/ fail = "roadmaps" THEN 0
            ELSE IF fail = "lessons.delete" THEN 1
            ELSE IF topicsMissing(newRoadmapWeeks) \/ fail = "lessons" THEN 2
            ELSE IF fail = "user_progress" THEN 3
            ELSE 4
        roadmaps == IF reached >= 1
                    THEN {IF r.id = id THEN [r EXCEPT !.weeks = newRoadmapWeeks] ELSE r :
                            r \in d_roadmaps}
                    ELSE d_roadmaps
        lessons == IF reached >= 3
                   THEN (d_lessons \ lessonsOf(id)) \cup withIds(newLessons, d_nextId)
                   ELSE IF reached = 2 THEN d_lessons \ lessonsOf(id)
                   ELSE d_lessons
        completions == IF reached >= 2 THEN completionsWithout(lessonsOf(id))
                       ELSE d_completions
        f == roadmapDataFetched(refetch, roadmaps)
    IN
    /\ page = "roadmap"
    /\ rv_roadmap # Null
    /\ d_nextId <= MaxIds
    /\ d_roadmaps' = roadmaps
    /\ d_lessons' = lessons
    /\ d_completions' = completions
    /\ d_progress' = IF reached = 4
                     THEN {IF q.roadmap_id = id
                           THEN [q EXCEPT !.total_lessons = Len(newLessons),
                                          !.completed_lessons = 0,
                                          !.total_time_spent = 0,
                                          !.current_week = 1]
                           ELSE q : q \in d_progress}
                     ELSE d_progress
    /\ d_nextId' = IF reached >= 3 THEN d_nextId + Len(newLessons) ELSE d_nextId
    /\ IF reached = 4
       THEN /\ rv_roadmap' = f.roadmap
            /\ shown' = IF refetch = "none" THEN "success" ELSE f.shown
       ELSE /\ shown' = "error"
            /\ UNCHANGED rv_roadmap
    /\ rv_processing' = FALSE
    /\ UNCHANGED <<d_profiles, authVars, rv_loading, rv_showDeleteModal, page, lessonVars>>
    /\ UNCHANGED <<outsidePages, listVars, onboardingVars>>

\* The user opens the onboarding page; RoadmapView and LessonView are
\* unmounted.
openOnboarding ==
    /\ a_user # NoUser
    /\ page # "onboarding"
    /\ page' = "onboarding"
    /\ rv_roadmap' = Null
    /\ rv_loading' = TRUE
    /\ rv_showDeleteModal' = FALSE
    /\ rv_processing' = FALSE
    /\ shown' = "none"
    /\ LessonViewUnmounted
    /\ UNCHANGED <<dbVars, authVars>>
    /\ ll_lessons' = {} /\ ll_completions' = {} /\ ll_loading' = TRUE /\ ll_error' = FALSE
    /\ UNCHANGED <<outsidePages, onboardingVars>>

PagesInit ==
    /\ page = "onboarding"
    /\ shown = "none"
    /\ rv_roadmap = Null
    /\ rv_loading = TRUE
    /\ rv_showDeleteModal = FALSE
    /\ rv_processing = FALSE

AuthSignedIn ==
    /\ a_user = User
    /\ a_profile = Null

\* ------------------------------------------------------ formatAuthError

\* The most words of an error message.
MaxWords == 2

\* The messages formatAuthError returns.  A text is a sequence of words; a
\* word is [w, cap, n]: its letters in lower case, whether it is written
\* with a capital, and its number of characters.  A sentence whose letters
\* no caller looks at is one word.
AuthMessages ==
    LET text(w, n) == <<[w |-> w, cap |-> TRUE, n |-> n]>>
        word(w, n) == <<[w |-> w, cap |-> FALSE, n |-> n]>>
    IN
    [noError |-> text("an unexpected error occurred", 28),
     credentials |-> text("invalid email or password. please check your credentials", 72),
     exists |-> text("an account with this email already exists. or use a different", 95),
     registered |-> text("an account with this email already exists. please sign in", 66),
     weakCode |-> text("password is too weak. with a mix of letters and numbers", 89),
     weak |-> text("password is too weak. please use at least 6 characters.", 55),
     email |-> text("please enter a valid email address.", 35),
     notConfirmed |-> text("please check your email and click the confirmation link", 78),
     tooMany |-> text("too many login attempts.", 75),
     signupDisabled |-> text("new user registration is currently disabled.", 68),
     emailInvalid |-> text("the email address format is invalid.", 66),
     tooShort |-> text("password must be at least 6 characters long.", 44),
     userNotFound |-> text("no account found with this email address.", 64),
     sessionNotFound |-> text("your session has expired.", 47),
     refreshToken |-> text("authentication expired.", 45),
     invalidRequest |-> text("invalid request.", 63),
     network |-> text("network", 7)
                 \o word(" connection error. please check your internet connection", 73),
     timeout |-> text("connection ", 11) \o word("timeout", 7)
                 \o word(". please check your internet connection and try again.", 55),
     rateLimit |-> text("too many attempts.", 65),
     database |-> text("database connection error.", 56),
     notFound |-> text("service temporarily ", 20) \o word("unavailable", 11)
                  \o word(". please try again in a moment.", 31),
     generic |-> text("an unexpected error occurred. please try again or contact", 94)]

\* The errors tried: null, or an object with a code, recognised or not or
\* missing (""), and a message of at most MaxWords words; of at most one
\* word where the code is recognised.
AuthErrors ==
    LET cased == {[w |-> "invalid login credentials", n |-> 25],
                  [w |-> "user already registered", n |-> 23],
                  [w |-> "email not confirmed", n |-> 19],
                  [w |-> "weak password", n |-> 13], [w |-> "invalid email", n |-> 13],
                  [w |-> "timeout", n |-> 7], [w |-> "timed out", n |-> 9],
                  [w |-> "network", n |-> 7], [w |-> "rate limit", n |-> 10],
                  [w |-> "database", n |-> 8], [w |-> "not_found", n |-> 9],
                  [w |-> "error:", n |-> 6]}
        plain == {[w |-> "404", n |-> 3], [w |-> "x", n |-> 1], [w |-> "xx", n |-> 2],
                  [w |-> "x98", n |-> 98]}
        words == {[w |-> x.w, cap |-> c, n |-> x.n] : x \in cased, c \in BOOLEAN}
                 \cup {[w |-> x.w, cap |-> FALSE, n |-> x.n] : x \in plain}
        codes == {"", "invalid_credentials", "user_already_exists",
                  "email_address_already_exists", "weak_password", "invalid_email",
                  "email_not_confirmed", "too_many_requests", "signup_disabled",
                  "email_address_invalid", "password_too_short", "user_not_found",
                  "session_not_found", "refresh_token_not_found", "invalid_request",
                  "network_error", "PGRST116"}
    IN
    {[isNull |-> TRUE, code |-> "", message |-> << >>]}
    \cup {[isNull |-> FALSE, code |-> c, message |-> m] :
             c \in codes, m \in UNION {[1..k -> words] : k \in 0..1}}
    \cup {[isNull |-> FALSE, code |-> c, message |-> m] :
             c \in {"", "PGRST116"}, m \in UNION {[1..k -> words] : k \in 0..MaxWords}}

\* String.prototype.toLowerCase
toLowerCase(s) == [i \in 1..Len(s) |-> [s[i] EXCEPT !.cap = FALSE]]

RECURSIVE length(_)
\* String.prototype.length
length(s) == IF s = << >> THEN 0 ELSE Head(s).n + length(Tail(s))

\* formatAuthError looking for "network" before "timeout".
formatAuthErrorNetworkFirst(error) ==
    LET errorMessage == error.message
        errorCode == error.code
        lower == toLowerCase(errorMessage)
        has(w) == \E i \in 1..Len(lower) : lower[i].w = w
    IN
    IF error.isNull THEN AuthMessages.noError
    ELSE CASE errorCode = "invalid_credentials" -> AuthMessages.credentials
           [] errorCode \in {"user_already_exists", "email_address_already_exists"} ->
                  AuthMessages.exists
           [] errorCode = "weak_password" -> AuthMessages.weakCode
           [] errorCode = "invalid_email" -> AuthMessages.email
           [] errorCode = "email_not_confirmed" -> AuthMessages.notConfirmed
           [] errorCode = "too_many_requests" -> AuthMessages.tooMany
           [] errorCode = "signup_disabled" -> AuthMessages.signupDisabled
           [] errorCode = "email_address_invalid" -> AuthMessages.emailInvalid
           [] errorCode = "password_too_short" -> AuthMessages.tooShort
           [] errorCode = "user_not_found" -> AuthMessages.userNotFound
           [] errorCode = "session_not_found" -> AuthMessages.sessionNotFound
           [] errorCode = "refresh_token_not_found" -> AuthMessages.refreshToken
           [] errorCode = "invalid_request" -> AuthMessages.invalidRequest
           [] errorCode = "network_error" -> AuthMessages.network
           [] OTHER ->
                  IF has("invalid login credentials") THEN AuthMessages.credentials
                  ELSE IF has("user already registered") THEN AuthMessages.registered
                  ELSE IF has("email not confirmed") THEN AuthMessages.notConfirmed
                  ELSE IF has("weak password") THEN AuthMessages.weak
                  ELSE IF has("invalid email") THEN AuthMessages.email
                  ELSE IF has("network") THEN AuthMessages.network
                  ELSE IF has("timeout") \/ has("timed out") THEN AuthMessages.timeout
                  ELSE IF has("rate limit") THEN AuthMessages.rateLimit
                  ELSE IF has("database") THEN AuthMessages.database
                  ELSE IF has("not_found") \/ has("404") THEN AuthMessages.notFound
                  ELSE IF /\ errorMessage # << >>
                          /\ length(errorMessage) < 100
                          /\ ~\E i \in 1..Len(errorMessage) :
                                errorMessage[i].w = "error:" /\ errorMessage[i].cap
                  THEN errorMessage
                  ELSE AuthMessages.generic

formatAuthError(error) ==
    LET errorMessage == error.message
        errorCode == error.code
        lower == toLowerCase(errorMessage)
        has(w) == \E i \in 1..Len(lower) : lower[i].w = w
    IN
    IF error.isNull THEN AuthMessages.noError
    ELSE CASE errorCode = "invalid_credentials" -> AuthMessages.credentials
           [] errorCode \in {"user_already_exists", "email_address_already_exists"} ->
                  AuthMessages.exists
           [] errorCode = "weak_password" -> AuthMessages.weakCode
           [] errorCode = "invalid_email" -> AuthMessages.email
           [] errorCode = "email_not_confirmed" -> AuthMessages.notConfirmed
           [] errorCode = "too_many_requests" -> AuthMessages.tooMany
           [] errorCode = "signup_disabled" -> AuthMessages.signupDisabled
           [] errorCode = "email_address_invalid" -> AuthMessages.emailInvalid
           [] errorCode = "password_too_short" -> AuthMessages.tooShort
           [] errorCode = "user_not_found" -> AuthMessages.userNotFound
           [] errorCode = "session_not_found" -> AuthMessages.sessionNotFound
           [] errorCode = "refresh_token_not_found" -> AuthMessages.refreshToken
           [] errorCode = "invalid_request" -> AuthMessages.invalidRequest
           [] errorCode = "network_error" -> AuthMessages.network
           [] OTHER ->
                  IF has("invalid login credentials") THEN AuthMessages.credentials
                  ELSE IF has("user already registered") THEN AuthMessages.registered
                  ELSE IF has("email not confirmed") THEN AuthMessages.notConfirmed
                  ELSE IF has("weak password") THEN AuthMessages.weak
                  ELSE IF has("invalid email") THEN AuthMessages.email
                  ELSE IF has("timeout") \/ has("timed out") THEN AuthMessages.timeout
                  ELSE IF has("network") THEN AuthMessages.network
                  ELSE IF has("rate limit") THEN AuthMessages.rateLimit
                  ELSE IF has("database") THEN AuthMessages.database
                  ELSE IF has("not_found") \/ has("404") THEN AuthMessages.notFound
                  ELSE IF /\ errorMessage # << >>
                          /\ length(errorMessage) < 100
                          /\ ~\E i \in 1..Len(errorMessage) :
                                errorMessage[i].w = "error:" /\ errorMessage[i].cap
                  THEN errorMessage
                  ELSE AuthMessages.generic

\* A caller passes the error it caught to formatAuthError.
formatAuthErrorCalled ==
    /\ fa_result = << >>
    /\ fa_result' = formatAuthError(fa_error)
    /\ UNCHANGED <<fa_error, geminiVars, toastVars, dbVars, authVars, pageVars, lessonVars,
                   requestVars, listVars, onboardingVars, authFlowVars>>

\* ------------------------------------------- AuthProvider and Dashboard

\* The most requests issued in one run.
MaxRequests == 4

Requests == {"getSession", "fetchProfile", "fetchUserData"}

\* No request made yet, Dashboard not mounted.
RequestsInit ==
    /\ r_inflight = [req \in Requests |-> 0]
    /\ r_failed = [req \in Requests |-> 0]
    /\ r_issued = 0
    /\ r_last = [request |-> "none", cause |-> "none", again |-> FALSE]
    /\ dash_effectPending = FALSE
    /\ dash_timer = FALSE
    /\ dash_error = FALSE

\* req is issued by cause, inflight being the calls that stay in flight.
issue(inflight, req, cause) ==
    /\ r_issued < MaxRequests
    /\ r_issued' = r_issued + 1
    /\ r_inflight' = [inflight EXCEPT ![req] = @ + 1]
    /\ r_last' = [request |-> req, cause |-> cause, again |-> r_failed[req] > 0]

\* A call of req has settled: the calls left in flight, and the failures
\* counted when it failed or timed out.
requestSettled(req, isFailure) ==
    [inflight |-> [r_inflight EXCEPT ![req] = @ - 1],
     failed |-> IF isFailure THEN [r_failed EXCEPT ![req] = @ + 1] ELSE r_failed]

\* What the router and Dashboard make of the user just set: without a user
\* the protected routes go to /auth and Dashboard unmounts, which clears its
\* timer; with one, /auth goes to /dashboard and Dashboard mounts, and a
\* mounted Dashboard runs its effect again when user or profile changed.
rendered(user, changed) ==
    LET mounted == page = "dashboard" /\ user # NoUser IN
    /\ page' = IF user = NoUser THEN "auth" ELSE "dashboard"
    /\ dash_effectPending' = IF mounted THEN dash_effectPending \/ changed ELSE user # NoUser
    /\ dash_timer' = (mounted /\ dash_timer)
    /\ dash_error' = (mounted /\ dash_error)

\* initializeAuth after its await of getSession, which gave a session, none,
\* an error, or nothing within 10000 ms.
getSessionSettles(outcome) ==
    LET s == requestSettled("getSession", outcome \in {"error", "timeout"}) IN
    /\ r_inflight["getSession"] > 0
    /\ r_failed' = s.failed
    /\ a_user' = IF outcome = "session" THEN User ELSE NoUser
    /\ IF outcome = "session"
       THEN /\ issue(s.inflight, "fetchProfile", "initializeAuth")
            /\ UNCHANGED a_profile
       ELSE /\ r_inflight' = [s.inflight EXCEPT !["fetchUserData"] = 0]
            /\ a_profile' = Null
            /\ UNCHANGED <<r_issued, r_last>>
    /\ rendered(a_user', TRUE)
    /\ shown' = CASE outcome = "error" -> "error"
                  [] outcome = "timeout" -> "errorWithRetry"
                  [] OTHER -> shown
    /\ UNCHANGED outsideRequests

\* The callback of onAuthStateChange, called with a session or without one.
authStateChange(event) ==
    /\ a_user' = IF event = "SIGNED_OUT" THEN NoUser ELSE User
    /\ IF event = "SIGNED_OUT"
       THEN /\ a_profile' = Null
            /\ r_inflight' = [r_inflight EXCEPT !["fetchUserData"] = 0]
            /\ UNCHANGED <<r_issued, r_last>>
       ELSE /\ issue(r_inflight, "fetchProfile", "authEvent")
            /\ UNCHANGED a_profile
    /\ rendered(a_user', TRUE)
    /\ UNCHANGED <<r_failed, shown>>
    /\ UNCHANGED outsideRequests

\* fetchProfile after its await: the row came, or an error, or nothing
\* within 8000 ms.  setProfile(null) changes nothing where profile is null.
fetchProfileSettles(outcome) ==
    LET s == requestSettled("fetchProfile", outcome # "data")
        rows == {p \in d_profiles : p.id = User}
    IN
    /\ r_inflight["fetchProfile"] > 0
    /\ r_inflight' = s.inflight
    /\ r_failed' = s.failed
    /\ a_profile' = IF outcome = "data" /\ rows # {} THEN CHOOSE p \in rows : TRUE ELSE Null
    /\ rendered(a_user, a_profile' # Null \/ a_profile # Null)
    /\ shown' = CASE outcome = "error" -> "error"
                  [] outcome = "timeout" -> "errorWithRetry"
                  [] OTHER -> shown
    /\ UNCHANGED <<r_issued, r_last, a_user>>
    /\ UNCHANGED outsideRequests

\* fetchUserData is called: setError(null), then the queries.
fetchUserDataCalled(cause) ==
    /\ issue(r_inflight, "fetchUserData", cause)
    /\ dash_error' = FALSE
    /\ UNCHANGED <<r_failed, authVars, page, shown>>
    /\ UNCHANGED outsideRequests

\* The effect of Dashboard on [user, profile]: the timer of the run before
\* is cleared; with a profile fetchUserData is called, without one the
\* timer is set.
dashboardEffect ==
    /\ page = "dashboard"
    /\ dash_effectPending
    /\ dash_effectPending' = FALSE
    /\ dash_timer' = (a_profile = Null)
    /\ IF a_profile # Null
       THEN fetchUserDataCalled("effect")
       ELSE UNCHANGED <<r_inflight, r_failed, r_issued, r_last, dash_error, authVars,
                        page, shown, outsideRequests>>

\* The timer of the effect fires after 2000 ms; the profile it looks at is
\* the one of the render that set it, null.
dashboardTimer ==
    /\ page = "dashboard"
    /\ dash_timer
    /\ dash_timer' = FALSE
    /\ fetchUserDataCalled("timer")
    /\ UNCHANGED dash_effectPending

\* fetchUserData whose catch block calls fetchUserData again.
fetchUserDataSettlesRetrying(fail) ==
    LET s == requestSettled("fetchUserData", fail # "none") IN
    /\ r_inflight["fetchUserData"] > 0
    /\ r_failed' = s.failed
    /\ IF fail \in {"roadmaps", "timeout"}
       THEN issue(s.inflight, "fetchUserData", "catch")
       ELSE /\ r_inflight' = s.inflight
            /\ UNCHANGED <<r_issued, r_last>>
    /\ dash_error' = (dash_error \/ fail \in {"roadmaps", "timeout"})
    /\ UNCHANGED <<dash_effectPending, dash_timer, authVars, page, shown>>
    /\ UNCHANGED outsideRequests

\* fetchUserData after its awaits: a failed or late roadmaps query sets
\* error, a failed progress or completions query is only logged.
fetchUserDataSettles(fail) ==
    LET s == requestSettled("fetchUserData", fail # "none") IN
    /\ r_inflight["fetchUserData"] > 0
    /\ r_inflight' = s.inflight
    /\ r_failed' = s.failed
    /\ dash_error' = (dash_error \/ fail \in {"roadmaps", "timeout"})
    /\ UNCHANGED <<r_issued, r_last, dash_effectPending, dash_timer, authVars, page, shown>>
    /\ UNCHANGED outsideRequests

\* Try Again of the error page of Dashboard.
tryAgain ==
    /\ page = "dashboard"
    /\ dash_error
    /\ fetchUserDataCalled("user")
    /\ UNCHANGED <<dash_effectPending, dash_timer>>

\* The user loads the page again: AuthProvider mounts and calls getSession.
reload ==
    /\ issue([req \in Requests |-> 0], "getSession", "user")
    /\ r_failed' = [req \in Requests |-> 0]
    /\ a_user' = NoUser
    /\ a_profile' = Null
    /\ page' = "loading"
    /\ shown' = "none"
    /\ dash_effectPending' = FALSE
    /\ dash_timer' = FALSE
    /\ dash_error' = FALSE
    /\ UNCHANGED outsideRequests

\* --------------------------------------------- AuthProvider and AuthForm

\* The most fetchProfile calls of one run.
MaxCalls == 3

\* AuthProvider as mounted, initializeAuth at its await (loading), or after
\* initializeAuth has set loading false.
AuthFlow(loading) ==
    /\ a_loading = loading
    /\ a_isNewUser = FALSE
    /\ a_attempts = 0
    /\ au_session = IF loading THEN "pending" ELSE "settled"
    /\ au_pending = "none"
    /\ au_fetches = {}
    /\ au_nextCall = 1
    /\ au_op = [kind |-> "none", pc |-> "none", call |-> 0, seen |-> 0]
    /\ au_target = "none"
    /\ au_warnings = 0
    /\ au_last = [by |-> "none", isRetry |-> FALSE, made |-> 0, toast |-> "none"]

\* AppRoutes with a ProtectedRoute that does not look at user.
AppRoutesUnprotected ==
    /\ page' = IF a_loading' THEN page
               ELSE IF a_user' = NoUser THEN page
               ELSE IF page # "auth" THEN page
               ELSE IF a_isNewUser' THEN "onboarding"
               ELSE "dashboard"
    /\ au_target' = IF au_target = "none" /\ page = "auth" /\ page' # "auth"
                    THEN page'
                    ELSE au_target

\* AppRoutes and ProtectedRoute rendered with the state just set: a spinner
\* while loading, which leaves the location; /auth sends a user to
\* /onboarding or /dashboard, a protected route sends no user to /auth.
AppRoutes ==
    /\ page' = IF a_loading' THEN page
               ELSE IF a_user' = NoUser THEN "auth"
               ELSE IF page # "auth" THEN page
               ELSE IF a_isNewUser' THEN "onboarding"
               ELSE "dashboard"
    /\ au_target' = IF au_target = "none" /\ page = "auth" /\ page' # "auth"
                    THEN page'
                    ELSE au_target

\* fetchProfile throwing again from its catch block.
fetchProfileRethrowing(outcome, isRetry, profileFetchAttempts) ==
    LET word(w, n) == [w |-> w, cap |-> FALSE, n |-> n]
        error == CASE outcome = "error" ->
                          [isNull |-> FALSE, code |-> "", message |-> <<word("database", 8)>>]
                   [] outcome = "throws" ->
                          [isNull |-> FALSE, code |-> "", message |-> <<word("x", 1)>>]
                   [] OTHER ->
                          [isNull |-> FALSE, code |-> "",
                           message |-> <<[w |-> "profile fetch ", cap |-> TRUE, n |-> 14],
                                         word("timed out", 9)>>]
        errorMsg == formatAuthError(error)
        failed == outcome \in {"error", "throws", "timeout"}
    IN
    [settled |-> IF outcome \in {"throws", "timeout"} THEN "rejected" ELSE "resolved",
     profile |-> IF outcome = "row" THEN "data" ELSE "null",
     attempts |-> IF failed THEN "increment" ELSE IF outcome = "row" THEN "reset" ELSE "keep",
     toast |-> IF ~failed THEN "none"
               ELSE IF ~includes(errorMsg, <<word("timeout", 7)>>) THEN "Profile Error"
               ELSE IF ~isRetry /\ profileFetchAttempts < 2 THEN "Loading Issue"
               ELSE "none"]

\* fetchProfile(userId, isRetry) from its await on, by what the query gave:
\* a row, no row, an error result, an exception, or nothing within 8000 ms.
\* profileFetchAttempts is the value of the render the call was made from
\* (seen, in the record of a call; made is the state's value at the call).
fetchProfile(outcome, isRetry, profileFetchAttempts) ==
    LET word(w, n) == [w |-> w, cap |-> FALSE, n |-> n]
        error == CASE outcome = "error" ->
                          [isNull |-> FALSE, code |-> "", message |-> <<word("database", 8)>>]
                   [] outcome = "throws" ->
                          [isNull |-> FALSE, code |-> "", message |-> <<word("x", 1)>>]
                   [] OTHER ->
                          [isNull |-> FALSE, code |-> "",
                           message |-> <<[w |-> "profile fetch ", cap |-> TRUE, n |-> 14],
                                         word("timed out", 9)>>]
        errorMsg == formatAuthError(error)
        failed == outcome \in {"error", "throws", "timeout"}
    IN
    [settled |-> "resolved",
     profile |-> IF outcome = "row" THEN "data" ELSE "null",
     attempts |-> IF failed THEN "increment" ELSE IF outcome = "row" THEN "reset" ELSE "keep",
     toast |-> IF ~failed THEN "none"
               ELSE IF ~includes(errorMsg, <<word("timeout", 7)>>) THEN "Profile Error"
               ELSE IF ~isRetry /\ profileFetchAttempts < 2 THEN "Loading Issue"
               ELSE "none"]

\* initializeAuth leaving loading to the profile fetch when there is a
\* session.
initializeAuthSettlesAwaitingProfile(outcome) ==
    /\ au_session = "pending"
    /\ au_session' = "settled"
    /\ a_user' = IF outcome = "session" THEN User ELSE NoUser
    /\ IF outcome = "session"
       THEN /\ au_nextCall <= MaxCalls
            /\ au_fetches' = au_fetches \cup
                   {[id |-> au_nextCall, by |-> "initializeAuth", isRetry |-> FALSE, seen |-> 0,
                     made |-> a_attempts]}
            /\ au_nextCall' = au_nextCall + 1
            /\ UNCHANGED a_profile
       ELSE /\ a_profile' = Null
            /\ UNCHANGED <<au_fetches, au_nextCall>>
    /\ a_loading' = (outcome = "session" /\ a_loading)
    /\ UNCHANGED a_isNewUser
    /\ AppRoutes
    /\ UNCHANGED <<a_attempts, au_pending, au_op, au_warnings, au_last>>
    /\ UNCHANGED outsideAuth

\* initializeAuth after its await of getSession, which gave a session, none,
\* an error result, an exception, or nothing within 10000 ms.  The effect's
\* fetchProfile is the one of the first render.
initializeAuthSettles(outcome) ==
    /\ au_session = "pending"
    /\ au_session' = "settled"
    /\ a_user' = IF outcome = "session" THEN User ELSE NoUser
    /\ IF outcome = "session"
       THEN /\ au_nextCall <= MaxCalls
            /\ au_fetches' = au_fetches \cup
                   {[id |-> au_nextCall, by |-> "initializeAuth", isRetry |-> FALSE, seen |-> 0,
                     made |-> a_attempts]}
            /\ au_nextCall' = au_nextCall + 1
            /\ UNCHANGED a_profile
       ELSE /\ a_profile' = Null
            /\ UNCHANGED <<au_fetches, au_nextCall>>
    /\ a_loading' = FALSE
    /\ UNCHANGED a_isNewUser
    /\ AppRoutes
    /\ UNCHANGED <<a_attempts, au_pending, au_op, au_warnings, au_last>>
    /\ UNCHANGED outsideAuth

\* The callback of onAuthStateChange: the client reports the event of a
\* sign-in, sign-up or sign-out, or a refreshed token of the session.
onAuthStateChange(event) ==
    /\ \/ event = au_pending
       \/ event = "TOKEN_REFRESHED" /\ au_pending = "none" /\ a_user # NoUser
    /\ au_pending' = "none"
    /\ a_user' = IF event = "SIGNED_OUT" THEN NoUser ELSE User
    /\ IF event = "SIGNED_OUT"
       THEN /\ a_profile' = Null
            /\ a_isNewUser' = FALSE
            /\ UNCHANGED <<au_fetches, au_nextCall>>
       ELSE /\ au_nextCall <= MaxCalls
            /\ a_isNewUser' = (a_isNewUser \/ event = "SIGNED_UP")
            /\ au_fetches' = au_fetches \cup
                   {[id |-> au_nextCall, by |-> "onAuthStateChange", isRetry |-> FALSE,
                     seen |-> 0, made |-> a_attempts]}
            /\ au_nextCall' = au_nextCall + 1
            /\ UNCHANGED a_profile
    /\ a_loading' = FALSE
    /\ AppRoutes
    /\ UNCHANGED <<a_attempts, au_session, au_op, au_warnings, au_last>>
    /\ UNCHANGED outsideAuth

\* handleSubmit of AuthForm up to signIn's or signUp's await of the
\* credential call: setLoading(true), and signIn clears isNewUser.  It is
\* taken while the run has room for the two fetchProfile calls that follow.
handleSubmit(isLogin) ==
    /\ page = "auth"
    /\ ~a_loading
    /\ a_user = NoUser
    /\ au_pending = "none"
    /\ au_op.pc \notin {"credential", "profile"}
    /\ au_nextCall < MaxCalls
    /\ au_op' = [kind |-> IF isLogin THEN "signIn" ELSE "signUp", pc |-> "credential",
                 call |-> 0, seen |-> a_attempts]
    /\ au_target' = "none"
    /\ a_loading' = TRUE
    /\ a_isNewUser' = (~isLogin /\ a_isNewUser)
    /\ UNCHANGED <<a_user, a_profile, page, a_attempts, au_session, au_pending, au_fetches,
                   au_nextCall, au_warnings, au_last>>
    /\ UNCHANGED outsideAuth

\* signIn or signUp after its await of the credential call, which gave a
\* user, no user or an error; with a user the client reports event, if any,
\* and fetchProfile is called and awaited.
credentialSettles(outcome, event) ==
    /\ au_op.pc = "credential"
    /\ IF outcome = "user"
       THEN /\ au_nextCall <= MaxCalls
            /\ event \in IF au_op.kind = "signIn" THEN {"SIGNED_IN"}
                         ELSE {"SIGNED_IN", "SIGNED_UP", "none"}
            /\ au_pending' = event
            /\ au_op' = [au_op EXCEPT !.pc = "profile", !.call = au_nextCall]
            /\ au_fetches' = au_fetches \cup
                   {[id |-> au_nextCall, by |-> au_op.kind, isRetry |-> FALSE,
                     seen |-> au_op.seen, made |-> a_attempts]}
            /\ au_nextCall' = au_nextCall + 1
            /\ UNCHANGED <<a_loading, a_isNewUser>>
       ELSE /\ event = "none"
            /\ au_op' = [au_op EXCEPT !.pc = "rejected"]
            /\ a_loading' = FALSE
            /\ a_isNewUser' = (au_op.kind = "signIn" /\ a_isNewUser)
            /\ UNCHANGED <<au_pending, au_fetches, au_nextCall>>
    /\ UNCHANGED <<a_user, a_profile>>
    /\ AppRoutes
    /\ UNCHANGED <<a_attempts, au_session, au_warnings, au_last>>
    /\ UNCHANGED outsideAuth

\* The fetchProfile call id returns, and with it the signIn or signUp that
\* awaits it.
fetchProfileReturns(id, outcome) ==
    \E c \in au_fetches :
        LET r == fetchProfile(outcome, c.isRetry, c.seen)
            rows == {p \in d_profiles : p.id = User}
            awaited == au_op.pc = "profile" /\ au_op.call = id
        IN
        /\ c.id = id
        /\ outcome = "row" => rows # {}
        /\ au_fetches' = au_fetches \ {c}
        /\ a_profile' = IF r.profile = "data" THEN CHOOSE p \in rows : TRUE ELSE Null
        /\ a_attempts' = CASE r.attempts = "increment" -> a_attempts + 1
                           [] r.attempts = "reset" -> 0
                           [] OTHER -> a_attempts
        /\ au_warnings' = IF r.toast = "Loading Issue" THEN au_warnings + 1
                          ELSE IF outcome = "row" THEN 0
                          ELSE au_warnings
        /\ au_last' = [by |-> c.by, isRetry |-> c.isRetry, made |-> c.made, toast |-> r.toast]
        /\ au_op' = IF awaited THEN [au_op EXCEPT !.pc = r.settled] ELSE au_op
        /\ a_loading' = IF awaited /\ (au_op.kind = "signUp" \/ r.settled = "rejected")
                        THEN FALSE
                        ELSE a_loading
        /\ a_isNewUser' = IF awaited
                          THEN au_op.kind = "signUp" /\ r.settled = "resolved"
                          ELSE a_isNewUser
        /\ UNCHANGED a_user
        /\ AppRoutes
        /\ UNCHANGED <<au_session, au_pending, au_nextCall>>
        /\ UNCHANGED outsideAuth

\* signOut: the flags are cleared, then the client signs out and reports
\* it, or fails.
signOut(fail) ==
    /\ a_user # NoUser
    /\ ~a_loading
    /\ au_pending = "none"
    /\ a_isNewUser' = FALSE
    /\ a_attempts' = 0
    /\ au_warnings' = 0
    /\ au_pending' = IF fail THEN "none" ELSE "SIGNED_OUT"
    /\ UNCHANGED <<a_user, a_profile, page, a_loading, au_session, au_fetches, au_nextCall,
                   au_op, au_target, au_last>>
    /\ UNCHANGED outsideAuth

\* ------------------------------------------------------- specifications

\* Before anything has happened: no call made, no toast shown.
Init ==
    /\ GeminiInit /\ ToastInit /\ DbInit /\ PagesInit /\ LessonViewInit
    /\ LessonsListInit /\ OnboardingInit /\ AuthSignedIn
    /\ AuthFlow(FALSE)
    /\ RequestsInit
    /\ fa_error = [isNull |-> TRUE, code |-> "", message |-> << >>]
    /\ fa_result = << >>

\* A signed-in user whose roadmap has been created.
InitLesson ==
    /\ GeminiInit /\ ToastInit /\ DbAfterOnboarding /\ PagesInit /\ LessonViewInit
    /\ LessonsListInit
    /\ OnboardingInit
    /\ AuthSignedIn /\ AuthFlow(FALSE) /\ RequestsInit
    /\ fa_error = [isNull |-> TRUE, code |-> "", message |-> << >>]
    /\ fa_result = << >>

\* The page has been loaded: AuthProvider has mounted and called getSession,
\* the router shows the spinner.
InitRetry ==
    /\ GeminiInit /\ ToastInit /\ DbAfterOnboarding /\ LessonViewInit
    /\ LessonsListInit
    /\ OnboardingInit
    /\ AuthFlow(TRUE)
    /\ a_user = NoUser
    /\ a_profile = Null
    /\ page = "loading"
    /\ shown = "none"
    /\ rv_roadmap = Null
    /\ rv_loading = TRUE
    /\ rv_showDeleteModal = FALSE
    /\ rv_processing = FALSE
    /\ r_inflight = [req \in Requests |-> IF req = "getSession" THEN 1 ELSE 0]
    /\ r_failed = [req \in Requests |-> 0]
    /\ r_issued = 1
    /\ r_last = [request |-> "getSession", cause |-> "mount", again |-> FALSE]
    /\ dash_effectPending = FALSE
    /\ dash_timer = FALSE
    /\ dash_error = FALSE
    /\ fa_error = [isNull |-> TRUE, code |-> "", message |-> << >>]
    /\ fa_result = << >>

RetryNext ==
    \/ \E outcome \in {"session", "none", "error", "timeout"} : getSessionSettles(outcome)
    \/ \E event \in {"SIGNED_IN", "TOKEN_REFRESHED", "SIGNED_OUT"} : authStateChange(event)
    \/ \E outcome \in {"data", "error", "timeout"} : fetchProfileSettles(outcome)
    \/ dashboardEffect
    \/ dashboardTimer
    \/ \E fail \in {"none", "roadmaps", "timeout", "user_progress", "lesson_completions"} :
          fetchUserDataSettles(fail)
    \/ tryAgain
    \/ reload

SpecRetry == InitRetry /\ [][RetryNext]_vars

RoadmapNext ==
    \/ \E gen \in GenerateRoadmapResults,
          fail \in {"none", "roadmaps", "lessons", "user_progress", "profiles", "fetchProfile"} :
            handleGenerateRoadmap(gen, fail)
    \/ \E fail \in {"none", "roadmaps", "lessons", "lesson_completions"} :
            fetchRoadmapData(fail)
    \/ openDeleteModal
    \/ \E fail \in {"none", "roadmaps"} : handleDeleteRoadmap(fail)
    \/ \E gen \in GenerateRoadmapResults,
          fail \in {"none", "roadmaps", "lessons.delete", "lessons", "user_progress"},
          refetch \in {"none", "roadmaps"} :
            handleAlterRoadmap(gen, fail, refetch)
    \/ openOnboarding

SpecRoadmap == Init /\ [][RoadmapNext]_vars

LessonNext ==
    \/ \E lessonId \in 1..MaxIds, fail \in {"none", "lessons", "lessons.all"},
          checkFails \in BOOLEAN :
            openLesson(lessonId, fail, checkFails)
    \/ \E fail \in {"none", "lessons", "lessons.all"} : fetchLesson(fail)
    \/ \E i \in 1..MaxRuns, result \in LessonContentResults : generationSettles(i, result)
    \/ \E fail \in {"none", "lesson_completions", "user_progress.select", "user_progress"} :
            handleMarkComplete(fail)
    \/ handleStartTest
    \/ \E answer \in Answers : handleAnswerSelect(answer)
    \/ \E fail \in {"none", "lesson_completions", "user_progress.select", "user_progress"} :
            handleNextQuestion(fail)
    \/ backToLesson

SpecLesson == InitLesson /\ [][LessonNext]_vars

\* The lessons are opened and marked complete, listed, and the roadmap is
\* viewed and deleted.
CourseNext ==
    \/ \E lessonId \in 1..MaxIds, fail \in {"none", "lessons", "lessons.all"},
          checkFails \in BOOLEAN :
            openLesson(lessonId, fail, checkFails)
    \/ \E i \in 1..MaxRuns, result \in LessonContentResults : generationSettles(i, result)
    \/ \E fail \in {"none", "lesson_completions", "user_progress.select", "user_progress"} :
            handleMarkComplete(fail)
    \/ \E fail \in {"none", "roadmaps", "timeout", "lessons", "lesson_completions", "both"} :
            fetchLessons(fail)
    \/ \E fail \in {"none", "roadmaps", "lessons", "lesson_completions"} :
            fetchRoadmapData(fail)
    \/ openDeleteModal
    \/ \E fail \in {"none", "roadmaps"} : handleDeleteRoadmap(fail)

SpecCourse == InitLesson /\ [][CourseNext]_vars

\* A caller has caught an error and is about to format it.
InitFormat ==
    /\ GeminiInit /\ ToastInit /\ DbInit /\ PagesInit /\ LessonViewInit
    /\ LessonsListInit /\ OnboardingInit /\ AuthSignedIn
    /\ AuthFlow(FALSE)
    /\ RequestsInit
    /\ fa_error \in AuthErrors
    /\ fa_result = << >>

SpecFormat == InitFormat /\ [][formatAuthErrorCalled]_vars

\* The page is opened at /auth or at /dashboard: AuthProvider has mounted
\* and called getSession, the router shows the spinner.
InitAuth ==
    /\ GeminiInit /\ ToastInit /\ DbAfterOnboarding /\ LessonViewInit
    /\ LessonsListInit /\ OnboardingInit /\ RequestsInit
    /\ AuthFlow(TRUE)
    /\ a_user = NoUser
    /\ a_profile = Null
    /\ page \in {"auth", "dashboard"}
    /\ shown = "none"
    /\ rv_roadmap = Null
    /\ rv_loading = TRUE
    /\ rv_showDeleteModal = FALSE
    /\ rv_processing = FALSE
    /\ fa_error = [isNull |-> TRUE, code |-> "", message |-> << >>]
    /\ fa_result = << >>

AuthNext ==
    \/ \E outcome \in {"session", "noSession", "error", "throws", "timeout"} :
            initializeAuthSettles(outcome)
    \/ \E event \in {"SIGNED_IN", "SIGNED_UP", "SIGNED_OUT", "TOKEN_REFRESHED"} :
            onAuthStateChange(event)
    \/ \E isLogin \in BOOLEAN : handleSubmit(isLogin)
    \/ \E outcome \in {"user", "noUser", "error"},
          event \in {"SIGNED_IN", "SIGNED_UP", "none"} :
            credentialSettles(outcome, event)
    \/ \E id \in 1..MaxCalls, outcome \in {"row", "noRow", "error", "throws", "timeout"} :
            fetchProfileReturns(id, outcome)
    \/ \E fail \in BOOLEAN : signOut(fail)

SpecAuth == InitAuth /\ [][AuthNext]_vars

\* getSession is raced with a timer of 10000 ms, so initializeAuth gets past
\* its await.
SpecAuthFair ==
    /\ SpecAuth
    /\ WF_vars(\E outcome \in {"session", "noSession", "error", "throws", "timeout"} :
                  initializeAuthSettles(outcome))

\* The credential call of signIn and signUp is answered as well, and
\* fetchProfile, raced with a timer of 8000 ms, gets past its await.  Whether
\* the client's event reaches the callback is left open.
SpecSignInFair ==
    /\ SpecAuthFair
    /\ WF_vars(\E outcome \in {"user", "noUser", "error"},
                  event \in {"SIGNED_IN", "SIGNED_UP", "none"} :
                  credentialSettles(outcome, event))
    /\ WF_vars(\E id \in 1..MaxCalls,
                  outcome \in {"row", "noRow", "error", "throws", "timeout"} :
                  fetchProfileReturns(id, outcome))

SpecGemini == Init /\ [][GeminiNext]_vars

SpecToast == Init /\ [][ToastNext]_vars

\* ------------------------------------------------------------ claims C1-C3

\* C1: when the body of a 200 reply has been read and its text is a JSON
\* array or object in a code fence, cleanJsonResponse has returned exactly
\* the embedded JSON text, and makeGeminiRequest has resolved with the value
\* that text denotes.
C1_FencedJsonParsed ==
    (g_last = "okBodyRead" /\ g_env.data.fencedJson)
        => /\ g_cleaned = g_env.data.embedded
           /\ JSONparse(g_env.data.embedded).ok
           /\ g_result = Resolved(JSONparse(g_env.data.embedded).value)
           /\ g_result.value = g_env.data.value

\* C1's case: a fenced array that holds an object has been read and parsed.
C1_Witness ==
    /\ g_last = "okBodyRead"
    /\ g_env.data.fencedJson
    /\ g_result.state = "resolved"
    /\ g_result.value.t = "arr"
    /\ Len(g_result.value.items) = 1
    /\ g_result.value.items[1].t = "obj"
    /\ Len(g_result.value.items[1].items) = MaxItems

\* C2: when the body of a response that is not ok has been read, the call
\* is rejected with the message of the status class (429, 401, >= 500,
\* other), whatever the body text is, and the caller gets that message.
C2_StatusClassReported ==
    g_last = "errorBodyRead"
        => /\ g_result.state = "rejected"
           /\ g_result.error.message = statusError(g_env.status, g_env.errorText).message
           /\ g_caller.state = "rejected"
           /\ g_caller.error.message = g_result.error.message

\* C3: no call is pending once its timeout has elapsed, in any phase, and a
\* call the timer aborted is rejected with the timeout message.
C3_HardTimeout ==
    /\ g_elapsed > timeoutOf(g_fn) => g_pc = "settled"
    /\ g_timer = "fired" => g_result = Rejected(Err("Error", MsgTimeout))


\* ------------------------------------------------------------ claim C6

\* C6: every toast a component created with showError, showWarning or
\* showSuccess is an element of the toast list App hands to ToastContainer,
\* until removeToast is called with its id.
C6_ToastReachesApp ==
    \A t \in t_created :
        t.id \notin t_removed
            => \E i \in 1..Len(t_toasts.App) : t_toasts.App[i].id = t.id


\* ------------------------------------------------------------ claim C7

\* C7: the lesson rows of every stored roadmap correspond one-to-one to the
\* topics of its stored weeks: one row per topic, with week_number the
\* week's index plus one, order_index the topic's index in its week, and
\* the topic's title; also after a run of handleGenerateRoadmap or
\* handleAlterRoadmap in which a write failed.
C7_LessonsMatchTopics ==
    \A r \in d_roadmaps :
        LET topics == {<<w, t>> \in (1..Len(r.weeks)) \X (1..MaxTopics) :
                          r.weeks[w].hasTopics /\ t <= Len(r.weeks[w].topics)}
        IN  /\ Cardinality(lessonsOf(r.id)) = Cardinality(topics)
            /\ \A k \in topics :
                  \E l \in lessonsOf(r.id) :
                      /\ l.week_number = k[1]
                      /\ l.order_index = k[2] - 1
                      /\ l.title = r.weeks[k[1]].topics[k[2]].title

\* ------------------------------------------------------------ claim C5

\* C5: no error is fatal: whatever generateLessonContent resolved with and
\* whichever request failed, LessonView renders a page; rendering never
\* throws.
C5_NoErrorIsFatal == page = "lesson" => renderLessonView # "throws"

\* ------------------------------------------------------------ claim C8

\* C8: completed_lessons of a progress record is the number of completion
\* records the user has for lessons of the roadmap, and so never exceeds
\* total_lessons, whatever Mark Complete actions and finished tests there
\* were.
C8_CompletedWithinTotal ==
    \A q \in d_progress :
        /\ q.completed_lessons =
              Cardinality({c \in d_completions :
                              /\ c.user_id = q.user_id
                              /\ c.lesson_id \in {l.id : l \in lessonsOf(q.roadmap_id)}})
        /\ q.completed_lessons <= q.total_lessons

\* ------------------------------------------------------------ claim C9

\* C9: there is at most one completion record per user and lesson, and once
\* completeTest has finished with its success toast, the record of the user
\* and the lesson, if there is one, holds the score and the answers of that
\* attempt.
C9_CompletionHoldsLastAttempt ==
    /\ \A c1, c2 \in d_completions :
          (c1.user_id = c2.user_id /\ c1.lesson_id = c2.lesson_id) => c1 = c2
    /\ (page = "lesson" /\ lv_testCompleted /\ shown = "success") =>
          \A c \in d_completions :
              (c.user_id = a_user /\ c.lesson_id = lv_lessonId) =>
                  (c.score = lv_score /\ c.answers = lv_userAnswers)

\* ------------------------------------------------------------ claim C10

\* C10: an entry lesson_<id> of localStorage, once written, is never
\* overwritten or removed, and no run of fetchLesson asks for a generation
\* while the entry of its lesson exists.
C10_CacheEntryIsKept ==
    [][/\ \A e \in ls_items : e \in ls_items'
       /\ Len(lv_runs') > Len(lv_runs) => getItem(lv_lessonId') = << >>]_vars

\* ------------------------------------------------------------ claim C4

\* C4 as stated: a request that has failed or timed out is issued again
\* only by a user action, never by a timer, an effect or an auth-state
\* callback.
C4_OnlyUserReissues == r_last.again => r_last.cause = "user"

\* C4 as amended: the step that handles a failed or timed-out request
\* issues no request and sets no timer, and leaves alone what would make
\* the effect of Dashboard call fetchUserData again after fetchUserData
\* failed.
C4_FailureHandlingIssuesNothing ==
    [][\A req \in Requests :
          r_failed'[req] > r_failed[req] =>
              /\ r_issued' = r_issued
              /\ dash_timer' => dash_timer
              /\ req = "fetchUserData" => (dash_effectPending' = dash_effectPending)]_vars

\* A request that failed has been issued again, and not by the user.
C4_Witness ==
    /\ r_last.again
    /\ r_last.cause # "user"
    /\ r_failed[r_last.request] > 0

\* ------------------------------------------------------------ claim C11

\* C11: when the delete of handleDeleteRoadmap succeeds, the roadmap is gone
\* together with every lesson and progress record that referenced it and
\* every completion of one of its lessons, and the page is /onboarding;
\* when it fails, no row is removed and the page stays; either way
\* processing is false and the delete modal closed afterwards.
C11_DeleteCascades ==
    [][\A fail \in {"none", "roadmaps"} :
          handleDeleteRoadmap(fail) =>
              LET id == rv_roadmap.id
                  gone == {l.id : l \in lessonsOf(id)}
              IN
              /\ fail = "none" =>
                    /\ \A r \in d_roadmaps' : r.id # id
                    /\ \A l \in d_lessons' : l.roadmap_id # id
                    /\ \A q \in d_progress' : q.roadmap_id # id
                    /\ \A c \in d_completions' : c.lesson_id \notin gone
                    /\ page' = "onboarding"
              /\ fail = "roadmaps" =>
                    /\ UNCHANGED <<d_roadmaps, d_lessons, d_progress, d_completions>>
                    /\ page' = page
              /\ ~rv_processing'
              /\ ~rv_showDeleteModal']_vars

\* A roadmap one of whose lessons had been completed has been deleted.
C11_Witness ==
    /\ page = "onboarding"
    /\ shown = "success"
    /\ d_roadmaps = {}
    /\ d_completions = {}
    /\ d_nextId > 4

\* ------------------------------------------------------------ claim C12

\* C12: formatAuthError returns a non-empty text for every error, null
\* included; a recognised code decides the result whatever the message is;
\* otherwise the first pattern found in the lower-cased message, in the
\* order credentials, already registered, email not confirmed, weak
\* password, invalid email, timeout, network, rate limit, database, not
\* found, decides it; otherwise the message itself is returned if it is not
\* empty, shorter than 100 characters and without "Error:", and the
\* generic message if not.
C12_ErrorsClassified ==
    fa_result # << >> =>
        LET msg == fa_error.message
            recognised == fa_error.code \notin {"", "PGRST116"}
            patterns == <<{"invalid login credentials"}, {"user already registered"},
                          {"email not confirmed"}, {"weak password"}, {"invalid email"},
                          {"timeout", "timed out"}, {"network"}, {"rate limit"},
                          {"database"}, {"not_found", "404"}>>
            answers == <<AuthMessages.credentials, AuthMessages.registered,
                         AuthMessages.notConfirmed, AuthMessages.weak, AuthMessages.email,
                         AuthMessages.timeout, AuthMessages.network, AuthMessages.rateLimit,
                         AuthMessages.database, AuthMessages.notFound>>
            found == {i \in 1..Len(patterns) : \E k \in 1..Len(msg) : msg[k].w \in patterns[i]}
            first == CHOOSE i \in found : \A j \in found : i <= j
            friendly == /\ Len(msg) > 0
                        /\ length(msg) < 100
                        /\ [w |-> "error:", cap |-> TRUE, n |-> 6] \notin {msg[k] : k \in 1..Len(msg)}
        IN
        /\ length(fa_result) > 0
        /\ (~fa_error.isNull /\ recognised) =>
              \A e \in AuthErrors :
                  (e.code = fa_error.code /\ Len(e.message) <= 1) =>
                      formatAuthError(e) = fa_result
        /\ (~fa_error.isNull /\ ~recognised /\ found # {}) => fa_result = answers[first]
        /\ (~fa_error.isNull /\ ~recognised /\ found = {}) =>
              fa_result = IF friendly THEN msg ELSE AuthMessages.generic

\* An error without a recognised code whose message holds two patterns has
\* been classified.
C12_Witness ==
    /\ fa_result # << >>
    /\ fa_error.code = "PGRST116"
    /\ Len(fa_error.message) = 2
    /\ fa_error.message[1].w = "network"
    /\ fa_error.message[2].w = "timed out"
    /\ fa_result = AuthMessages.timeout

\* ------------------------------------------------------------ claim C13

\* C13: malformed AI output is reported as an error and never returned as
\* data: makeGeminiRequest rejects a 200 reply that lacks candidates or
\* content, or whose cleaned text does not start with [ or {, or is no
\* valid JSON; generateQuestions and generateRoadmap resolve only with
\* arrays, generateLessonContent only with an object that is no array.
C13_MalformedOutputRejected ==
    (g_pc = "settled" /\ g_last = "okBodyRead") =>
        LET d == g_env.data
            cleaned == cleanJsonResponse(d.text)
            malformed ==
                \/ d.shape \in {"noCandidates", "emptyCandidates", "noContent"}
                \/ /\ d.shape = "text"
                   /\ \/ ~startsWith(cleaned, <<"[">>) /\ ~startsWith(cleaned, <<"{">>)
                      \/ ~JSONparse(cleaned).ok
        IN
        /\ malformed => g_result.state = "rejected"
        /\ g_caller.state = "resolved" =>
              g_caller.value.t = IF g_fn = "generateLessonContent" THEN "obj" ELSE "arr"

\* ------------------------------------------------------------ claim C14

\* C14: fetchLessons replaces lessons and completions only when both of its
\* parallel queries succeeded; when either fails neither list changes, the
\* error is set and loading is false.
C14_ListsMergedAllOrNothing ==
    [][\A fail \in {"none", "lessons", "lesson_completions", "both"} :
          (fetchLessons(fail) /\ \E r \in d_roadmaps : r.user_id = a_user) =>
              LET before == IF page = "lessons" THEN <<ll_lessons, ll_completions>>
                            ELSE <<{}, {}>>
              IN
              /\ ~ll_loading'
              /\ fail # "none" => (ll_error' /\ <<ll_lessons', ll_completions'>> = before)
              /\ fail = "none" =>
                    /\ ~ll_error'
                    /\ ll_lessons' = {l \in d_lessons : \E r \in d_roadmaps :
                                          r.user_id = a_user /\ l.roadmap_id = r.id}
                    /\ ll_completions' = {c \in d_completions : c.user_id = a_user}]_vars

\* The lists had been fetched, a later fetch has failed, and the lists are
\* still shown behind the error.
C14_Witness ==
    /\ page = "lessons"
    /\ ll_error
    /\ ~ll_loading
    /\ ll_lessons # {}
    /\ ll_completions # {}

\* ------------------------------------------------------------ claim C15

\* C15: the error toast OnboardingFlow shows for the 'AI service is
\* temporarily unavailable' failure carries, in its action field, an action
\* whose label is 'Retry' and whose onClick is handleGenerateRoadmap.
C15_RetryActionBound ==
    (page = "onboarding" /\ shown = "errorWithRetry") =>
        /\ of_toast.type = "error"
        /\ of_toast.action.defined
        /\ of_toast.action.label = "Retry"
        /\ of_toast.action.onClick = "handleGenerateRoadmap"

\* ------------------------------------------------------------ claim C20

\* C20: handleGenerateRoadmap writes the roadmap, its lessons, the progress
\* record (total_lessons the number of lessons inserted, completed_lessons
\* 0, current_week 1) and the profile's goal in that order, nothing after the
\* first step that fails, goes to the dashboard only when all succeeded,
\* writes nothing with no user, and leaves loading false.  A plan without
\* topics has no lessons insert that could fail.
C20_CreationOrdered ==
    [][\A gen \in GenerateRoadmapResults,
          fail \in {"none", "roadmaps", "lessons", "user_progress", "profiles",
                    "fetchProfile"} :
          handleGenerateRoadmap(gen, fail) =>
              LET roadmaps == d_roadmaps' \ d_roadmaps
                  lessons == d_lessons' \ d_lessons
                  progress == d_progress' \ d_progress
              IN
              /\ ~of_loading'
              /\ Cardinality(roadmaps) <= 1
              /\ Cardinality(progress) <= 1
              /\ \A l \in lessons : \E r \in roadmaps : l.roadmap_id = r.id
              /\ \A q \in progress :
                    /\ \E r \in roadmaps : q.roadmap_id = r.id /\ r.user_id = a_user
                    /\ q.user_id = a_user
                    /\ q.total_lessons = Cardinality(lessons)
                    /\ q.completed_lessons = 0
                    /\ q.current_week = 1
              /\ d_profiles' # d_profiles => progress # {}
              /\ page' = "dashboard" =>
                    /\ roadmaps # {}
                    /\ progress # {}
                    /\ \E q \in d_profiles' : q.id = a_user /\ q.goal = "goal"
                    /\ gen.state = "resolved"
                    /\ fail \in {"none", "fetchProfile"} \/ (fail = "lessons" /\ lessons = {})
              /\ page' # "dashboard" => page' = page
              /\ (gen.state = "rejected" \/ fail = "roadmaps" \/ a_user = NoUser) =>
                    UNCHANGED dbVars
              /\ fail = "lessons" => lessons = {}
              /\ fail = "user_progress" => (progress = {} /\ d_profiles' = d_profiles)
              /\ fail = "profiles" => (d_profiles' = d_profiles /\ page' = page)]_vars

\* A roadmap of several lessons has been created in full and the dashboard
\* is shown.
C20_Witness ==
    /\ page = "dashboard"
    /\ shown = "success"
    /\ ~of_loading
    /\ \E q \in d_progress : q.total_lessons >= 2 /\ q.current_week = 1
    /\ \E q \in d_profiles : q.goal = "goal"

\* ------------------------------------------------------------ claim C16

\* C16: once the credential call of a signUp has succeeded, the first
\* redirect of /auth (rendered with loading false and a user) goes to
\* /onboarding; after that of a signIn it goes to /dashboard.
C16_NewUserToOnboarding ==
    (au_target # "none" /\ au_op.pc \in {"profile", "resolved"}) =>
        au_target = IF au_op.kind = "signUp" THEN "onboarding" ELSE "dashboard"

\* ------------------------------------------------------------ claim C17

\* C17: after AuthProvider mounts loading becomes false, whatever getSession
\* gives; initializeAuth sets it false in the step in which it calls
\* fetchProfile, which is then still at its await, and on the error,
\* exception and timeout paths (and without a session) it leaves user and
\* profile null.
C17_InitNeverBlocks ==
    /\ <>(~a_loading)
    /\ [][\A outcome \in {"session", "noSession", "error", "throws", "timeout"} :
              initializeAuthSettles(outcome) =>
                  /\ ~a_loading'
                  /\ outcome = "session" =>
                        \E c \in au_fetches' : c.by = "initializeAuth" /\ c \notin au_fetches
                  /\ outcome # "session" => (a_user' = NoUser /\ a_profile' = Null)]_vars

\* The session was found and loading is false while the profile fetch of
\* initializeAuth is still at its await.
C17_Witness ==
    /\ ~a_loading
    /\ au_session = "settled"
    /\ a_user = User
    /\ \E c \in au_fetches : c.by = "initializeAuth"

\* ------------------------------------------------------------ claim C18

\* C18: whatever its query gives (a row, no row, an error result, an
\* exception, the 8-second timeout) a fetchProfile call resolves, with
\* profile null unless a row was found, and the signIn or signUp awaiting
\* it resolves.
C18_FetchProfileNeverRejects ==
    [][\A id \in 1..MaxCalls, outcome \in {"row", "noRow", "error", "throws", "timeout"} :
          fetchProfileReturns(id, outcome) =>
              /\ \A c \in au_fetches :
                    c.id = id => fetchProfile(outcome, c.isRetry, c.seen).settled = "resolved"
              /\ (outcome = "row") = (a_profile' # Null)
              /\ (au_op.pc = "profile" /\ au_op.call = id) => au_op'.pc = "resolved"]_vars

\* A signIn has resolved although its profile fetch timed out.
C18_Witness ==
    /\ au_op.kind = "signIn"
    /\ au_op.pc = "resolved"
    /\ au_last.by = "signIn"
    /\ au_last.toast = "Loading Issue"
    /\ a_profile = Null

\* ------------------------------------------------------------ claim C19

\* C19: the 'Loading Issue' warning is shown only by a fetchProfile call
\* that is no retry and was made when fewer than 2 profile fetches had
\* failed since the last profile fetched or sign-out; so of the fetches
\* failing one after another at most two show it.
C19_WarningRateLimited ==
    /\ au_last.toast = "Loading Issue" => (~au_last.isRetry /\ au_last.made < 2)
    /\ au_warnings <= 2

\* ------------------------------------------------------------ claim C21

\* C21: when the completion upsert or the progress update of
\* handleMarkComplete or completeTest fails, 'Save Failed' is shown and no
\* success notification, isCompleted is not set, and the progress counters
\* stay as they were.
C21_UnsavedNotCompleted ==
    [][\A fail \in {"lesson_completions", "user_progress"} :
          (handleMarkComplete(fail) \/ handleNextQuestion(fail)) =>
              /\ shown' = "error"
              /\ lv_isCompleted' = lv_isCompleted
              /\ d_progress' = d_progress]_vars

\* ------------------------------------------------------------ claim C22

\* C22: a protected route (here /onboarding and /dashboard) shows its
\* children only with loading false and a user: while loading the spinner
\* is shown in its place, and with loading false and no user the location
\* is /auth.
C22_ProtectedOnlySignedIn ==
    LET shows == IF a_loading THEN "spinner"
                 ELSE IF page = "auth" THEN "AuthForm"
                 ELSE page
    IN
    /\ page \in {"auth", "onboarding", "dashboard"}
    /\ shows \in {"onboarding", "dashboard"} => a_user # NoUser
    /\ shows = "AuthForm" => a_user = NoUser

\* The dashboard is shown to the user who has signed in.
C22_Witness ==
    /\ page = "dashboard"
    /\ ~a_loading
    /\ a_user = User
    /\ au_op.kind = "signIn"
    /\ au_target = "dashboard"

\* ------------------------------------------------------------ claim C23

\* C23: after signIn has set loading true, loading becomes false again,
\* whether the credential call fails or succeeds and whenever, if at all,
\* the SIGNED_IN event reaches the callback.
C23_SignInLeavesLoadingFalse ==
    (au_op.kind = "signIn" /\ au_op.pc = "credential" /\ a_loading) ~> ~a_loading

\* ------------------------------------------------------------ claim C24

\* C24: profile is non-null only with a user, whose id is the profile's,
\* also when a fetchProfile call returns after the user it was made for
\* has signed out.
C24_ProfileOfCurrentUser ==
    a_profile # Null => (a_user # NoUser /\ a_profile.id = a_user)

=============================================================================
